---- MODULE Spec2Model ----
(***************************************************************************)
(* Model of the rust_tracer renderer: the recursive tracer (render.rs),    *)
(* the ray forest cache and its reduction (render_tree.rs), the scene's    *)
(* nearest-hit search (scene/mod.rs) and the Phong material                *)
(* (scene/material.rs).                                                    *)
(*                                                                         *)
(* Arithmetic.  f32 values are modelled as exact rationals <<n, d>> with   *)
(* d > 0, kept in lowest terms.  Vectors and points live on the planar     *)
(* hexagonal lattice: <<a, b>> stands for a*e0 + b*e1 where e0 and e1 are  *)
(* unit vectors 60 degrees apart, so every dot product of lattice vectors  *)
(* is a multiple of 1/2 and mirror reflection maps lattice directions to   *)
(* lattice directions.  A Color carries one channel: every operator of     *)
(* scene/color.rs acts on r, g and b independently and identically.        *)
(***************************************************************************)
EXTENDS Integers, Sequences, FiniteSets, TLC

(* ------------------------------ bounds --------------------------------- *)
\* largest ray parameter t at which a primitive is looked for
MaxT == 4
\* largest recursion depth a render is configured with
MaxDepth == 2
\* number of material edits in one run
MaxEdits == 1

(* ----------------------------- rationals ------------------------------- *)
RECURSIVE Gcd(_, _)
Gcd(a, b) == IF b = 0 THEN a ELSE Gcd(b, a % b)

Abs(x) == IF x < 0 THEN -x ELSE x

\* lowest terms, positive denominator
Q(n, d) ==
  LET s == IF d < 0 THEN -1 ELSE 1
      g == Gcd(Abs(n), Abs(d))
  IN  <<(s * n) \div g, (s * d) \div g>>

QI(n) == <<n, 1>>
QAdd(x, y) == Q(x[1] * y[2] + y[1] * x[2], x[2] * y[2])
QSub(x, y) == Q(x[1] * y[2] - y[1] * x[2], x[2] * y[2])
QMul(x, y) == Q(x[1] * y[1], x[2] * y[2])
QDiv(x, y) == Q(x[1] * y[2], x[2] * y[1])
QLt(x, y) == x[1] * y[2] < y[1] * x[2]
QGt(x, y) == QLt(y, x)

RECURSIVE QPow(_, _)
QPow(x, k) == IF k = 0 THEN QI(1) ELSE QMul(x, QPow(x, k - 1))

\* f32::sqrt on the values whose root is rational
ISqrt(n) == CHOOSE r \in 0..n : r * r = n
QSqrt(x) == <<ISqrt(x[1]), ISqrt(x[2])>>

\* std::f32::EPSILON = 2^-23
EPSILON == <<1, 8388608>>

(* ------------------------- vectors and points -------------------------- *)
\* the six unit directions of the lattice, 60 degrees apart
Unit == << <<1, 0>>, <<0, 1>>, <<-1, 1>>, <<-1, 0>>, <<0, -1>>, <<1, -1>> >>
UnitSet == {Unit[k] : k \in 1..6}

VAdd(v, w) == <<v[1] + w[1], v[2] + w[2]>>
VSub(v, w) == <<v[1] - w[1], v[2] - w[2]>>
VNeg(v) == <<-v[1], -v[2]>>
VScale(k, v) == <<k * v[1], k * v[2]>>

\* twice the dot product (an integer on the lattice)
Dot2(v, w) == 2 * v[1] * w[1] + 2 * v[2] * w[2] + v[1] * w[2] + v[2] * w[1]
dot(v, w) == Q(Dot2(v, w), 2)
len2(v) == v[1] * v[1] + v[2] * v[2] + v[1] * v[2]

\* Vector3::norm for the vectors whose unit vector is on the lattice
norm(v) ==
  IF v \in UnitSet THEN v
  ELSE CHOOSE u \in UnitSet : \E k \in 2..(2 * MaxT + 2) : v = VScale(k, u)

\* Vector3::reflect: 2 (self . about) about - self
reflect(v, about) == VSub(VScale(Dot2(v, about), about), v)

\* a vector with rational components that must be a lattice vector
QInt(x) == CHOOSE n \in -8..8 : x = QI(n)

(* ------------------------------ colours -------------------------------- *)
BLACK == QI(0)
WHITE == QI(1)

\* Color's PartialEq: the channels differ by less than EPSILON
ColorEq(a, b) ==
  LET d == QSub(a, b)
  IN  QLt(Q(Abs(d[1]), d[2]), EPSILON)

(* ------------------------------ options -------------------------------- *)
None == [tag |-> "None"]
Some(x) == [tag |-> "Some", v |-> x]

(* ---------------------- 3-D vectors and points (math/) ----------------- *)
\* The primitives of scene/ work in three dimensions.  A Vector3 or Point3 is a
\* triple of rationals; the inputs are f32 values on which every operation of the
\* code under test is exact.
QNeg(x) == <<-x[1], x[2]>>
QAbs(x) == <<Abs(x[1]), x[2]>>
QLe(x, y) == x[1] * y[2] <= y[1] * x[2]

\* |x| < EPSILON and x > EPSILON, computed without scaling x by 2^23
BelowEps(x) == Abs(x[1]) <= (x[2] - 1) \div EPSILON[2]
AboveEps(x) == x[1] > x[2] \div EPSILON[2]

\* a value with a zero denominator stands for a non-finite f32 (inf or NaN)
IsFinite(x) == x[2] # 0

\* f32 division: x / 0.0 is inf or NaN, not a trap
fdiv(x, y) ==
  IF y[1] = 0
    THEN <<(IF x[1] > 0 THEN 1 ELSE IF x[1] < 0 THEN -1 ELSE 0), 0>>
    ELSE QDiv(x, y)

Vector3(x, y, z) == <<QI(x), QI(y), QI(z)>>
Point3(x, y, z) == <<QI(x), QI(y), QI(z)>>

neg3(v) == <<QNeg(v[1]), QNeg(v[2]), QNeg(v[3])>>
scalar_mul3(a, v) == <<QMul(a, v[1]), QMul(a, v[2]), QMul(a, v[3])>>
scalar_div3(v, d) == <<QDiv(v[1], d), QDiv(v[2], d), QDiv(v[3], d)>>
add3(v, w) == <<QAdd(v[1], w[1]), QAdd(v[2], w[2]), QAdd(v[3], w[3])>>
sub3(v, w) == <<QSub(v[1], w[1]), QSub(v[2], w[2]), QSub(v[3], w[3])>>
dot3(v, w) == QAdd(QAdd(QMul(v[1], w[1]), QMul(v[2], w[2])), QMul(v[3], w[3]))

\* Vector3::cross
cross(v, w) ==
  << QSub(QMul(v[2], w[3]), QMul(v[3], w[2])),
     QSub(QMul(v[3], w[1]), QMul(v[1], w[3])),
     QSub(QMul(v[1], w[2]), QMul(v[2], w[1])) >>

\* Vector3::len: for a vector along one axis sqrt(x * x) is |x|; otherwise the
\* root of len2, which the inputs keep rational
len3(v) ==
  IF v[2][1] = 0 /\ v[3][1] = 0 THEN QAbs(v[1])
  ELSE IF v[1][1] = 0 /\ v[3][1] = 0 THEN QAbs(v[2])
  ELSE IF v[1][1] = 0 /\ v[2][1] = 0 THEN QAbs(v[3])
  ELSE QSqrt(dot3(v, v))

\* Vector3::norm
norm3(v) == scalar_div3(v, len3(v))

\* the point of a ray at parameter t (f32 * &Ray)
ray_at(t, ray) == add3(ray.origin, scalar_mul3(t, ray.direction))

(* ------------------------- matrices (math/matrix.rs) ------------------- *)
\* A Matrix is its rows, mat[row][col] with rows and columns numbered from 1.
identity ==
  << <<QI(1), QI(0), QI(0), QI(0)>>,
     <<QI(0), QI(1), QI(0), QI(0)>>,
     <<QI(0), QI(0), QI(1), QI(0)>>,
     <<QI(0), QI(0), QI(0), QI(1)>> >>

scale(x, y, z) ==
  << <<x, QI(0), QI(0), QI(0)>>,
     <<QI(0), y, QI(0), QI(0)>>,
     <<QI(0), QI(0), z, QI(0)>>,
     <<QI(0), QI(0), QI(0), QI(1)>> >>

translate(x, y, z) ==
  << <<QI(1), QI(0), QI(0), x>>,
     <<QI(0), QI(1), QI(0), y>>,
     <<QI(0), QI(0), QI(1), z>>,
     <<QI(0), QI(0), QI(0), QI(1)>> >>

\* rads.cos() and rads.sin() for the angles (in degrees) whose cosine and sine are
\* rational; 53 stands for atan(4/3), the angle of the 3-4-5 triangle
Cos(angle) ==
  CASE angle = 0 -> QI(1) [] angle = 90 -> QI(0) [] angle = 180 -> QI(-1)
    [] angle = 270 -> QI(0) [] angle = 53 -> Q(3, 5)

Sin(angle) ==
  CASE angle = 0 -> QI(0) [] angle = 90 -> QI(1) [] angle = 180 -> QI(0)
    [] angle = 270 -> QI(-1) [] angle = 53 -> Q(4, 5)

rotate_x(angle) ==
  << <<QI(1), QI(0), QI(0), QI(0)>>,
     <<QI(0), Cos(angle), QNeg(Sin(angle)), QI(0)>>,
     <<QI(0), Sin(angle), Cos(angle), QI(0)>>,
     <<QI(0), QI(0), QI(0), QI(1)>> >>

rotate_z(angle) ==
  << <<Cos(angle), QNeg(Sin(angle)), QI(0), QI(0)>>,
     <<Sin(angle), Cos(angle), QI(0), QI(0)>>,
     <<QI(0), QI(0), QI(1), QI(0)>>,
     <<QI(0), QI(0), QI(0), QI(1)>> >>

\* Matrix::mat_mul: sum over i of s[row][i] * a[i][col]
mat_mul(s, a) ==
  [row \in 1..4 |-> [col \in 1..4 |->
     QAdd(QAdd(QAdd(QMul(s[row][1], a[1][col]), QMul(s[row][2], a[2][col])),
               QMul(s[row][3], a[3][col])), QMul(s[row][4], a[4][col]))]]

transpose(m) == [row \in 1..4 |-> [col \in 1..4 |-> m[col][row]]]

\* Matrix::vec3_mul: the upper 3x3 block applied to a vector
vec3_mul(m, v) ==
  [k \in 1..3 |->
     QAdd(QAdd(QMul(v[1], m[k][1]), QMul(v[2], m[k][2])), QMul(v[3], m[k][3]))]

\* Matrix::pt_mul: the affine map applied to a point
pt_mul(m, p) ==
  [k \in 1..3 |->
     QAdd(QAdd(QAdd(QMul(p[1], m[k][1]), QMul(p[2], m[k][2])), QMul(p[3], m[k][3])),
          m[k][4])]

\* every entry is a finite f32
FiniteMatrix(m) == \A row \in 1..4, col \in 1..4 : IsFinite(m[row][col])

\* the search of Matrix::invert for the row to swap with: rows 0..4 in order, a
\* row taking over when its entry in the column is strictly larger in magnitude
RECURSIVE find_big_row(_, _, _, _)
find_big_row(mat, col, row, big_row) ==
  IF row > 4 THEN big_row
  ELSE find_big_row(mat, col, row + 1,
                    IF QGt(QAbs(mat[row][col]), QAbs(mat[big_row][col]))
                      THEN row ELSE big_row)

\* the j loop that exchanges two rows
swap_rows(mat, a, b) ==
  [row \in 1..4 |-> IF row = a THEN mat[b] ELSE IF row = b THEN mat[a] ELSE mat[row]]

\* row -= coeff * pivot row
row_sub(r, coeff, p) == [j \in 1..4 |-> QSub(r[j], QMul(coeff, p[j]))]

\* the elimination loop of one column: every other row whose coefficient is at
\* least EPSILON in magnitude is reduced, in self and in inverse alike, and its
\* entry in the column is set to 0
eliminate_row(w, col, row, coeff) ==
  IF row # col /\ ~BelowEps(coeff)
    THEN [w EXCEPT !.self[row] =
                     [row_sub(w.self[row], coeff, w.self[col]) EXCEPT ![col] = QI(0)],
                   !.inverse[row] = row_sub(w.inverse[row], coeff, w.inverse[col])]
    ELSE w

RECURSIVE eliminate(_, _, _)
eliminate(w, col, row) ==
  IF row > 4 THEN w
  ELSE IF row = col THEN eliminate(w, col, row + 1)
  ELSE eliminate(eliminate_row(w, col, row, QDiv(w.self[row][col], w.self[col][col])),
                 col, row + 1)

\* the last loop: inverse[row][col] /= self[row][row]
divide_rows(w) ==
  [row \in 1..4 |-> [col \in 1..4 |-> fdiv(w.inverse[row][col], w.self[row][row])]]

Panic(msg) == [tag |-> "panic", msg |-> msg]
Returned(x) == [tag |-> "ok", v |-> x]

\* Matrix::invert from column col on; w holds self, inverse and whether a row
\* swap has been made
RECURSIVE invert_col(_, _)

\* the elimination of column col, then the next column
reduce_col(w, col) == invert_col(eliminate(w, col, 1), col + 1)

\* a pivot below EPSILON: panic when no row has a larger entry, else swap
swap_or_panic(w, col, big_row) ==
  IF big_row = col THEN Panic("Singular Matrix")
  ELSE reduce_col([self |-> swap_rows(w.self, big_row, col),
                   inverse |-> swap_rows(w.inverse, big_row, col),
                   swapped |-> TRUE], col)

invert_col(w, col) ==
  IF col > 4 THEN Returned([mat |-> divide_rows(w), swapped |-> w.swapped])
  ELSE IF BelowEps(w.self[col][col])
    THEN swap_or_panic(w, col, find_big_row(w.self, col, 1, col))
  ELSE reduce_col(w, col)

\* Matrix::inverse: invert run on a copy
inverse(m) == invert_col([self |-> m, inverse |-> identity, swapped |-> FALSE], 1)

(* ------------------------------- state --------------------------------- *)
VARIABLES
  scene,           \* Scene: ambient, lights, shapes (each shape holds a material handle)
  mats,            \* the Rc<RefCell<dyn Material>> cells: handle -> Phong
  camera,          \* Camera: origin, x_res, y_res
  depth,           \* the configured recursion depth
  forest,          \* Option<RayForest>
  forest_mats,     \* the materials as they were when the forest was generated
  buffer,          \* RenderBuffer.buf, indexed [u][v], 0-based
  mutated_shapes,  \* the GUI's Rc<RefCell<HashSet<i32>>>
  last,            \* the last operation, its arguments and what it assigned
  edits            \* number of material edits made

vars == <<scene, mats, camera, depth, forest, forest_mats, buffer,
          mutated_shapes, last, edits>>

(* ----------------------------- materials ------------------------------- *)
\* Phong::new
Phong(ambient, diffuse, specular, power, reflectivity, refraction_index) ==
  [ambient |-> ambient, diffuse |-> diffuse, specular |-> specular, power |-> power,
   reflectivity |-> reflectivity, refraction_index |-> refraction_index]

\* a copy of the cell taken when the forest was generated
snapshot(h) == forest_mats[h]

\* i.material.borrow(): the cell behind a handle, as it is now
borrow(h) == mats[h]

\* the Lambert term without the surface colour
lambert_unscaled(light_dir, normal, light, surface) ==
  QMul(dot(light_dir, normal), light)

lambert(light_dir, normal, light, surface) ==
  QMul(QMul(dot(light_dir, normal), light), surface)

\* the specular term for s, the sum of the normalised eye and light directions:
\* h = s.norm(), m_dot_h = normal . h, so m_dot_h^2 = (normal . s)^2 / |s|^2 and
\* powf is exact for the even powers the model uses
phong_half(power, normal, s, light, surface) ==
  IF Dot2(normal, s) < 0
    THEN BLACK
    ELSE QMul(QMul(QPow(Q(Dot2(normal, s) * Dot2(normal, s), 4 * len2(s)), power \div 2),
                   light), surface)

phong(power, eye_dir, light_dir, normal, light, surface) ==
  phong_half(power, normal, VAdd(norm(eye_dir), norm(light_dir)), light, surface)

\* Material::set_diffuse
set_diffuse(m, c) == [m EXCEPT !.diffuse = c]

\* Material::get_reflected_energy for Phong
get_reflected_energy(m, incoming, light_dir, i) ==
  QAdd(lambert(light_dir, i.normal, incoming, m.diffuse),
       phong(m.power, i.eye_dir, light_dir, i.normal, incoming, m.specular))

(* ------------------------------- rays ---------------------------------- *)
Ray(origin, direction) == [origin |-> origin, direction |-> direction]

\* Camera::get_ray: one ray per pixel, all from the camera origin, fanned over the
\* lattice directions
get_ray(cam, u, v) ==
  Ray(cam.origin, Unit[((u + cam.x_res * v) % 6) + 1])

(* ------------------------------ the scene ------------------------------ *)
\* HitId is the id a primitive stamps on the Intersection it reports.
\* A primitive is a set of surface facets [p |-> point, n |-> outward normal] and a
\* material handle.  Renderable::intersect finds the nearest facet on the ray at
\* t >= 1 and reports it the way Sphere::intersect does: entering when the ray
\* runs against the outward normal, the normal flipped when leaving.
HitId(shape) == shape.id

\* the ray parameters at which the ray meets a facet of the shape
HitTimes(shape, ray) ==
  {t \in 1..MaxT :
     \E f \in shape.facets : f.p = VAdd(ray.origin, VScale(t, ray.direction))}

Least(ts) == CHOOSE x \in ts : \A y \in ts : x <= y

\* the Intersection reported for facet f, met at t
HitOn(shape, ray, t, f) ==
  LET entering == Dot2(f.n, ray.direction) < 0
  IN  Some([id |-> HitId(shape), t |-> QI(t), material |-> shape.material,
            point |-> f.p, eye_dir |-> VNeg(norm(ray.direction)),
            normal |-> IF entering THEN f.n ELSE VNeg(f.n),
            entering |-> entering])

HitAt(shape, ray, t) ==
  HitOn(shape, ray, t,
        CHOOSE g \in shape.facets : g.p = VAdd(ray.origin, VScale(t, ray.direction)))

\* the facet primitive's intersect
facets_intersect(shape, ray) ==
  IF HitTimes(shape, ray) = {} THEN None
  ELSE HitAt(shape, ray, Least(HitTimes(shape, ray)))

(* ------------------- sphere, plane, triangle (scene/) ------------------ *)
\* The three native primitives.  Each holds the id add_shape gives it, its
\* placement transform and the cached inverse, and a material handle.  The
\* texture coordinates of an Intersection are not modelled.

\* Sphere::new
NewSphere(material) ==
  [kind |-> "Sphere", id |-> 0, transform |-> identity, inv_transform |-> identity,
   material |-> material]

\* Plane::new
NewPlane(origin, normal, material) ==
  [kind |-> "Plane", id |-> 0, origin |-> origin, normal |-> normal,
   transform |-> identity, inv_transform |-> identity, material |-> material]

\* Triangle::new: the normal is (v1 - v0) x (v2 - v1), normalised
NewTriangle(v0, v1, v2, material) ==
  [kind |-> "Triangle", id |-> 0, verts |-> <<v0, v1, v2>>,
   normal |-> norm3(cross(sub3(v1, v0), sub3(v2, v1))),
   transform |-> identity, inv_transform |-> identity, material |-> material]

\* set_transform for what m.inverse() gave: the panic, or the primitive with the
\* transform and its cached inverse
with_inverse(shape, m, inv) ==
  IF inv.tag = "panic" THEN inv
  ELSE Returned([shape EXCEPT !.transform = m, !.inv_transform = inv.v.mat])

\* Renderable::set_transform of Sphere, Plane and Triangle
set_transform(shape, m) == with_inverse(shape, m, inverse(m))

\* Matrix * Ray: the origin as a point, the direction as a vector
transform_ray(m, ray) == Ray(pt_mul(m, ray.origin), vec3_mul(m, ray.direction))

\* the two roots of solve_quadratic when discr is neither negative nor within
\* EPSILON of zero, root the square root of discr
quadratic_roots(a, c, q) == Some(<<QDiv(q, a), QDiv(c, q)>>)

\* solve_quadratic for the discriminant discr
solve_discr(a, b, c, discr) ==
  IF QLt(discr, QI(0)) THEN None
  ELSE IF BelowEps(discr)
    THEN Some(<<QDiv(QMul(Q(-1, 2), b), a), QDiv(QMul(Q(-1, 2), b), a)>>)
  ELSE quadratic_roots(a, c,
                       IF QGt(b, QI(0))
                         THEN QMul(Q(-1, 2), QAdd(b, QSqrt(discr)))
                         ELSE QMul(Q(-1, 2), QSub(b, QSqrt(discr))))

solve_quadratic(a, b, c) ==
  solve_discr(a, b, c, QSub(QMul(b, b), QMul(QI(4), QMul(a, c))))

\* the Intersection Sphere::intersect builds for the chosen t
sphere_report(shape, ray, transformed_ray, t, entering, normal) ==
  Some([id |-> HitId(shape), t |-> t, material |-> shape.material,
        point |-> ray_at(t, ray),
        eye_dir |-> neg3(norm3(ray.direction)),
        normal |-> IF entering THEN normal ELSE neg3(normal),
        entering |-> entering])

\* a sphere that always reports the larger root
sphere_pick_far(shape, ray, transformed_ray, t0, t1) ==
  IF QLt(t0, QI(0)) /\ QLt(t1, QI(0)) THEN None
  ELSE sphere_report(shape, ray, transformed_ray, t1, QGt(t0, QI(0)),
                     norm3(vec3_mul(transpose(shape.inv_transform),
                                    ray_at(t1, transformed_ray))))

\* the roots in order, t0 <= t1
sphere_pick(shape, ray, transformed_ray, t0, t1) ==
  IF QLt(t0, QI(0)) /\ QLt(t1, QI(0)) THEN None
  ELSE sphere_report(shape, ray, transformed_ray,
                     IF QLt(t0, QI(0)) THEN t1 ELSE t0,
                     QGt(t0, QI(0)),
                     norm3(vec3_mul(transpose(shape.inv_transform),
                                    ray_at(IF QLt(t0, QI(0)) THEN t1 ELSE t0,
                                           transformed_ray))))

sphere_roots(shape, ray, transformed_ray, sol) ==
  IF sol = None THEN None
  ELSE IF QGt(sol.v[1], sol.v[2])
    THEN sphere_pick(shape, ray, transformed_ray, sol.v[2], sol.v[1])
    ELSE sphere_pick(shape, ray, transformed_ray, sol.v[1], sol.v[2])

\* the quadratic of the transformed ray against the unit sphere, l the vector
\* from the centre to the ray origin
sphere_local(shape, ray, transformed_ray, l) ==
  sphere_roots(shape, ray, transformed_ray,
               solve_quadratic(dot3(transformed_ray.direction, transformed_ray.direction),
                               QMul(QI(2), dot3(transformed_ray.direction, l)),
                               QSub(dot3(l, l), QI(1))))

\* Sphere::intersect
sphere_intersect(shape, ray) ==
  sphere_local(shape, ray, transform_ray(shape.inv_transform, ray),
               sub3(transform_ray(shape.inv_transform, ray).origin, Point3(0, 0, 0)))

\* the Intersection Plane::intersect builds
plane_report(shape, ray, t) ==
  Some([id |-> HitId(shape), t |-> t, material |-> shape.material,
        point |-> ray_at(t, ray),
        eye_dir |-> neg3(norm3(ray.direction)),
        normal |-> vec3_mul(shape.transform, shape.normal),
        entering |-> QLe(QI(0), t)])

\* a plane that reports a hit whenever the ray is not parallel to it
plane_two_sided(shape, transformed_ray, ray, denom) ==
  IF denom[1] # 0
    THEN plane_report(shape, ray,
                      QDiv(QNeg(dot3(sub3(shape.origin, transformed_ray.origin),
                                     shape.normal)), denom))
    ELSE None

\* the test on denom = -(normal . transformed direction)
plane_facing(shape, transformed_ray, ray, denom) ==
  IF AboveEps(denom)
    THEN plane_report(shape, ray,
                      QDiv(QNeg(dot3(sub3(shape.origin, transformed_ray.origin),
                                     shape.normal)), denom))
    ELSE None

plane_local(shape, transformed_ray, ray) ==
  plane_facing(shape, transformed_ray, ray,
               QNeg(dot3(shape.normal, transformed_ray.direction)))

\* Plane::intersect
plane_intersect(shape, ray) ==
  plane_local(shape, transform_ray(shape.inv_transform, ray), ray)

\* the Intersection Triangle::intersect builds
triangle_report(shape, ray, t, det) ==
  Some([id |-> HitId(shape), t |-> t, material |-> shape.material,
        point |-> ray_at(t, ray),
        eye_dir |-> neg3(norm3(ray.direction)),
        normal |-> IF QLt(t, QI(0)) THEN neg3(shape.normal) ELSE shape.normal,
        entering |-> QGt(det, QI(0))])

\* a triangle that also reports the hits behind the ray origin
triangle_behind(shape, ray, t, det) == triangle_report(shape, ray, t, det)

\* the last test: t < 0 is behind the ray origin
triangle_t(shape, ray, t, det) ==
  IF QLt(t, QI(0)) THEN None ELSE triangle_report(shape, ray, t, det)

\* the test on v = (direction . qvec) * inv_det, then t = (v0v2 . qvec) * inv_det
triangle_v(shape, ray, v0v2, det, u, qvec) ==
  IF QLt(QMul(dot3(ray.direction, qvec), QDiv(QI(1), det)), QI(0))
     \/ QGt(QAdd(u, QMul(dot3(ray.direction, qvec), QDiv(QI(1), det))), QI(1))
    THEN None
    ELSE triangle_t(shape, ray, QMul(dot3(v0v2, qvec), QDiv(QI(1), det)), det)

\* the test on u = (tvec . pvec) * inv_det
triangle_u(shape, ray, v0v1, v0v2, det, tvec, u) ==
  IF QLt(u, QI(0)) \/ QGt(u, QI(1)) THEN None
  ELSE triangle_v(shape, ray, v0v2, det, u, cross(tvec, v0v1))

\* the test on det = v0v1 . pvec
triangle_det(shape, ray, v0v1, v0v2, pvec, det) ==
  IF BelowEps(det) THEN None
  ELSE triangle_u(shape, ray, v0v1, v0v2, det, sub3(ray.origin, shape.verts[1]),
                  QMul(dot3(sub3(ray.origin, shape.verts[1]), pvec), QDiv(QI(1), det)))

triangle_edges(shape, ray, v0v1, v0v2) ==
  triangle_det(shape, ray, v0v1, v0v2, cross(ray.direction, v0v2),
               dot3(v0v1, cross(ray.direction, v0v2)))

\* Triangle::intersect (Moller-Trumbore); the triangle does not read its transform
triangle_intersect(shape, ray) ==
  triangle_edges(shape, ray, sub3(shape.verts[2], shape.verts[1]),
                 sub3(shape.verts[3], shape.verts[1]))

\* Renderable::intersect, dispatched on the primitive
ShapeIntersect(shape, ray) ==
  CASE shape.kind = "Sphere" -> sphere_intersect(shape, ray)
    [] shape.kind = "Plane" -> plane_intersect(shape, ray)
    [] shape.kind = "Triangle" -> triangle_intersect(shape, ray)
    [] OTHER -> facets_intersect(shape, ray)

\* Scene::new
NewScene == [ambient |-> BLACK, lights |-> <<>>, shapes |-> <<>>]

\* an insertion that leaves the primitive's id as its constructor set it
add_shape_unnumbered(sc, shape) == [sc EXCEPT !.shapes = Append(@, shape)]

\* Scene::add_shape: the id is the number of shapes already held
add_shape(sc, shape) ==
  [sc EXCEPT !.shapes = Append(@, [shape EXCEPT !.id = Len(sc.shapes)])]

add_light(sc, light) == [sc EXCEPT !.lights = Append(@, light)]

set_ambient(sc, ambient) == [sc EXCEPT !.ambient = ambient]

\* the loop of Scene::intersect from shape k on; intersect_step is its body for
\* what shape k reports
RECURSIVE intersect_from(_, _, _, _, _)
intersect_step(shapes, k, ray, nearest, nearest_intersection, hit) ==
  IF hit = None
    THEN intersect_from(shapes, k + 1, ray, nearest, nearest_intersection)
  ELSE IF nearest_intersection = None
    THEN intersect_from(shapes, k + 1, ray, hit.v.t, hit)
  ELSE IF QLt(hit.v.t, nearest)
    THEN intersect_from(shapes, k + 1, ray, hit.v.t, hit)
  ELSE intersect_from(shapes, k + 1, ray, nearest, nearest_intersection)

intersect_from(shapes, k, ray, nearest, nearest_intersection) ==
  IF k > Len(shapes) THEN nearest_intersection
  ELSE intersect_step(shapes, k, ray, nearest, nearest_intersection,
                      ShapeIntersect(shapes[k], ray))

\* the first hit in insertion order, with no comparison of t
intersect_first(sc, ray) ==
  LET ks == {k \in 1..Len(sc.shapes) : ShapeIntersect(sc.shapes[k], ray) # None}
  IN  IF ks = {} THEN None
      ELSE ShapeIntersect(sc.shapes[CHOOSE k \in ks : \A j \in ks : k <= j], ray)

\* Scene::intersect
intersect(sc, ray) == intersect_from(sc.shapes, 1, ray, QI(0), None)

\* the energy of light l at point when the shadow ray reports hit
total_energy(l, point, hit) ==
  IF hit = None THEN l.color
  ELSE IF len2(VSub(hit.v.point, point)) < len2(VSub(l.pos, point))
    THEN BLACK
    ELSE l.color

\* PointLight::get_energy: (direction to the light, energy arriving at point)
get_energy(l, sc, point) ==
  << norm(VSub(l.pos, point)),
     total_energy(l, point, intersect(sc, Ray(point, norm(VSub(l.pos, point))))) >>

\* get_light_energy: one shadow-tested sample per light.  The 0.0002 offset along
\* the normal is below the lattice spacing; ShapeIntersect never reports t = 0.
get_light_energy(sc, i) ==
  [k \in 1..Len(sc.lights) |-> get_energy(sc.lights[k], sc, i.point)]

(* ------------------------------ the tracer ----------------------------- *)
\* reflected_dir = -ray.direction().reflect(&i.normal).norm()
reflect_ray(ray, i) ==
  LET reflected_dir == VNeg(norm(reflect(ray.direction, i.normal)))
  IN  Ray(i.point, reflected_dir)

\* the refracted ray for k = ratio * m_dot_r - cos_theta
refract_dir(ray, i, ratio, k) ==
  Ray(i.point,
      << QInt(QAdd(QMul(ratio, QI(ray.direction[1])), QMul(k, QI(i.normal[1])))),
         QInt(QAdd(QMul(ratio, QI(ray.direction[2])), QMul(k, QI(i.normal[2])))) >>)

refract_snell(ray, i, ratio, m_dot_r, cos_theta_sqrd) ==
  IF QGt(cos_theta_sqrd, QI(0))
    THEN Some(refract_dir(ray, i, ratio, QSub(QMul(ratio, m_dot_r), QSqrt(cos_theta_sqrd))))
    ELSE None

refract_from(ray, i, ratio, m_dot_r) ==
  refract_snell(ray, i, ratio, m_dot_r,
                QSub(QI(1), QMul(QMul(ratio, ratio), QSub(QI(1), QMul(m_dot_r, m_dot_r)))))

refract_ray(ray, i, n1, n2) ==
  refract_from(ray, i, QDiv(n1, n2), QSub(QI(0), dot(ray.direction, i.normal)))

\* Schlick's approximation
schlick(m_dot_r, r0) ==
  QAdd(r0, QMul(QSub(QI(1), r0), QPow(QSub(QI(1), m_dot_r), 5)))

fresnel_reflection(light_dir, normal, n1, n2) ==
  schlick(dot(light_dir, normal),
          QMul(QDiv(QSub(n1, n2), QAdd(n1, n2)), QDiv(QSub(n1, n2), QAdd(n1, n2))))

fresnel_refraction(light_dir, normal, n1, n2) ==
  QSub(QI(1), fresnel_reflection(light_dir, normal, n1, n2))

\* the (n1, n2) pair both trace_ray and the ray tree take from the entering flag
indices(i) ==
  IF i.entering
    THEN <<QI(1), borrow(i.material).refraction_index>>
    ELSE <<borrow(i.material).refraction_index, QI(1)>>

\* the fold over the light samples: sum of fresnel * get_reflected_energy
RECURSIVE light_sum(_, _, _)
light_term(ldir, lenergy, i, n) ==
  QMul(fresnel_reflection(ldir, i.normal, n[1], n[2]),
       get_reflected_energy(borrow(i.material), lenergy, ldir, i))

light_sum(samples, k, i) ==
  IF k > Len(samples) THEN BLACK
  ELSE QAdd(light_term(samples[k][1], samples[k][2], i, indices(i)),
            light_sum(samples, k + 1, i))

\* the ambient and light terms of one hit, with the number of Scene::intersect
\* invocations they take
local_shade(sc, i) ==
  [color |-> QAdd(QMul(borrow(i.material).ambient, sc.ambient),
                  light_sum(get_light_energy(sc, i), 1, i)),
   calls |-> 1 + Len(sc.lights)]

\* a tracer that shades the first hit whatever the depth
first_hit_shade(sc, hit) ==
  IF hit = None THEN [color |-> BLACK, calls |-> 1] ELSE local_shade(sc, hit.v)

trace_ray_first_hit(sc, ray, d) == first_hit_shade(sc, intersect(sc, ray))

\* a tracer that gives a missing ray the scene's ambient colour
sky_shade(sc, hit) ==
  IF hit = None THEN [color |-> sc.ambient, calls |-> 1] ELSE local_shade(sc, hit.v)

trace_ray_sky(sc, ray, d) ==
  IF d = 0 THEN [color |-> BLACK, calls |-> 0] ELSE sky_shade(sc, intersect(sc, ray))

\* trace_ray; calls counts the invocations of Scene::intersect it makes
RECURSIVE trace_ray(_, _, _)

\* the reflected term for the reflected ray rr and what trace_ray gives along it
reflected_energy(i, n, rr, sub) ==
  [color |-> QMul(fresnel_reflection(rr.direction, i.normal, n[1], n[2]),
                  get_reflected_energy(borrow(i.material), sub.color, rr.direction, i)),
   calls |-> sub.calls]

trace_reflected(sc, d, i, n, rr) ==
  reflected_energy(i, n, rr, trace_ray(sc, rr, d - 1))

\* the refracted term for the refracted ray r and what trace_ray gives along it
refracted_energy(i, n, r, sub) ==
  [color |-> QMul(borrow(i.material).diffuse,
                  QMul(fresnel_refraction(r.direction, VNeg(i.normal), n[1], n[2]),
                       sub.color)),
   calls |-> sub.calls]

trace_refracted(sc, d, i, n, r) ==
  IF r = None
    THEN [color |-> QMul(borrow(i.material).diffuse, BLACK), calls |-> 0]
    ELSE refracted_energy(i, n, r.v, trace_ray(sc, r.v, d - 1))

\* ambient + lights + reflected + refracted
trace_sum(sc, i, lights, reflected, refracted) ==
  [color |-> QAdd(QAdd(QAdd(QMul(borrow(i.material).ambient, sc.ambient), lights),
                       reflected.color), refracted.color),
   calls |-> 1 + Len(sc.lights) + reflected.calls + refracted.calls]

\* the Some(i) arm of trace_ray, n the pair (n1, n2)
trace_hit(sc, ray, d, i, n) ==
  trace_sum(sc, i,
            light_sum(get_light_energy(sc, i), 1, i),
            IF QGt(borrow(i.material).reflectivity, EPSILON)
              THEN trace_reflected(sc, d, i, n, reflect_ray(ray, i))
              ELSE [color |-> BLACK, calls |-> 0],
            IF QGt(borrow(i.material).refraction_index, EPSILON)
              THEN trace_refracted(sc, d, i, n, refract_ray(ray, i, n[1], n[2]))
              ELSE [color |-> BLACK, calls |-> 0])

\* the match on what Scene::intersect returned
trace_match(sc, ray, d, hit) ==
  IF hit = None THEN [color |-> BLACK, calls |-> 1]
  ELSE trace_hit(sc, ray, d, hit.v, indices(hit.v))

trace_ray(sc, ray, d) ==
  IF d = 0 THEN [color |-> BLACK, calls |-> 0]
  ELSE trace_match(sc, ray, d, intersect(sc, ray))

(* ----------------------------- the ray tree ---------------------------- *)
\* RayTreeNode::None and RayTreeNode::Branch
NoneNode == [tag |-> "None"]
Branch(i, lights, reflected, refracted) ==
  [tag |-> "Branch", i |-> i, lights |-> lights, reflected |-> reflected,
   refracted |-> refracted]

\* RayTree::new
NewRayTree == [dirty |-> FALSE, shapes |-> {}, root |-> NoneNode]

\* build_ray_tree: the node, the id set after the inserts, and the number of
\* Scene::intersect invocations
RECURSIVE build_ray_tree(_, _, _, _)

\* the refracted child, built after the reflected one on the same id set
build_refracted(sc, d, i, r, shapes) ==
  IF QGt(borrow(i.material).refraction_index, EPSILON) /\ r # None
    THEN build_ray_tree(sc, r.v, d - 1, shapes)
    ELSE [node |-> NoneNode, shapes |-> shapes, calls |-> 0]

build_branch(sc, i, lights, reflected, refracted) ==
  [node |-> Branch(i, lights, reflected.node, refracted.node),
   shapes |-> refracted.shapes,
   calls |-> 1 + Len(sc.lights) + reflected.calls + refracted.calls]

build_children(sc, ray, d, i, n, reflected) ==
  build_branch(sc, i, get_light_energy(sc, i), reflected,
               build_refracted(sc, d, i,
                               IF QGt(borrow(i.material).refraction_index, EPSILON)
                                 THEN refract_ray(ray, i, n[1], n[2])
                                 ELSE None,
                               reflected.shapes))

\* a branch that follows the reflected ray whatever the reflectivity
build_hit_reflecting(sc, ray, d, i, n, shapes) ==
  build_children(sc, ray, d, i, n,
                 build_ray_tree(sc, reflect_ray(ray, i), d - 1, shapes))

\* the Some(i) arm of build_ray_tree, shapes the id set after shapes.insert(i.id)
build_hit(sc, ray, d, i, n, shapes) ==
  build_children(sc, ray, d, i, n,
                 IF QGt(borrow(i.material).reflectivity, EPSILON)
                   THEN build_ray_tree(sc, reflect_ray(ray, i), d - 1, shapes)
                   ELSE [node |-> NoneNode, shapes |-> shapes, calls |-> 0])

\* a match that builds the branch without shapes.insert(i.id)
build_match_no_insert(sc, ray, d, hit, shapes) ==
  IF hit = None THEN [node |-> NoneNode, shapes |-> shapes, calls |-> 1]
  ELSE build_hit(sc, ray, d, hit.v, indices(hit.v), shapes)

build_match(sc, ray, d, hit, shapes) ==
  IF hit = None THEN [node |-> NoneNode, shapes |-> shapes, calls |-> 1]
  ELSE build_hit(sc, ray, d, hit.v, indices(hit.v), shapes \cup {hit.v.id})

\* a builder whose depth test comes one level late: at depth 0 it still
\* intersects and records the hit as a leaf
build_past_zero(sc, ray, d, shapes) ==
  IF d = 0
    THEN LET hit == intersect(sc, ray)
         IN  IF hit = None THEN [node |-> NoneNode, shapes |-> shapes, calls |-> 1]
             ELSE [node |-> Branch(hit.v, get_light_energy(sc, hit.v), NoneNode, NoneNode),
                   shapes |-> shapes \cup {hit.v.id}, calls |-> 1 + Len(sc.lights)]
    ELSE build_match(sc, ray, d, intersect(sc, ray), shapes)

build_ray_tree(sc, ray, d, shapes) ==
  IF d = 0 THEN [node |-> NoneNode, shapes |-> shapes, calls |-> 0]
  ELSE build_match(sc, ray, d, intersect(sc, ray), shapes)

\* a reduction that keeps the ambient term of the root alone
render_ray_tree_ambient(tree, ambient) ==
  IF tree.tag = "None" THEN <<BLACK, <<0, 0>> >>
  ELSE << QMul(borrow(tree.i.material).ambient, ambient), VNeg(tree.i.eye_dir) >>

\* render_ray_tree: (color, direction the node was seen from)
RECURSIVE render_ray_tree(_, _)
render_ray_tree(tree, ambient) ==
  IF tree.tag = "None" THEN <<BLACK, <<0, 0>> >>
  ELSE
    LET i == tree.i
        n == indices(i)
        lights == light_sum(tree.lights, 1, i)
        reflected ==
          LET sub == render_ray_tree(tree.reflected, ambient)
              fresnel == fresnel_reflection(sub[2], i.normal, n[1], n[2])
          IN  QMul(fresnel, get_reflected_energy(borrow(i.material), sub[1], i.eye_dir, i))
        refracted ==
          LET sub == render_ray_tree(tree.refracted, ambient)
              fresnel == fresnel_refraction(sub[2], VNeg(i.normal), n[1], n[2])
          IN  QMul(fresnel, sub[1])
        amb == QMul(borrow(i.material).ambient, ambient)
    IN  << QAdd(QAdd(QAdd(amb, lights), reflected), refracted), VNeg(i.eye_dir) >>

\* a count that follows the reflected child only
RECURSIVE traverse_reflected(_)
traverse_reflected(node) ==
  IF node.tag = "None" THEN 0
  ELSE 1 + traverse_reflected(node.reflected)

\* RayTree::traverse_nodes
RECURSIVE traverse_nodes(_)
traverse_nodes(node) ==
  IF node.tag = "None" THEN 0
  ELSE 1 + traverse_nodes(node.reflected) + traverse_nodes(node.refracted)

\* RayTree::size
size(tree) == traverse_nodes(tree.root)

(* ----------------------------- the forest ------------------------------ *)
\* RenderBuffer::new
NewRenderBuffer(w, h) ==
  [w |-> w, h |-> h, buf |-> [u \in 0..(w - 1) |-> [v \in 0..(h - 1) |-> BLACK]]]

\* RayForest::new
NewRayForest(w, h) == [u \in 0..(w - 1) |-> [v \in 0..(h - 1) |-> NewRayTree]]

\* generate_ray_forest: a tree, its id set and the dirty flag for every camera
\* pixel; calls counts the Scene::intersect invocations made for each pixel.
\* The loops run over the camera's resolution and index a forest of w x h
\* cells: a camera pixel outside the grid panics the indexing, and a cell
\* outside the camera's resolution stays as RayForest::new left it
generate_ray_forest(cam, sc, w, h, d) ==
  LET built == [u \in 0..(w - 1) |-> [v \in 0..(h - 1) |->
                  build_ray_tree(sc, get_ray(cam, u, v), d, NewRayTree.shapes)]]
  IN  [forest |-> [u \in 0..(w - 1) |-> [v \in 0..(h - 1) |->
                     IF u < cam.x_res /\ v < cam.y_res
                       THEN [dirty |-> TRUE, shapes |-> built[u][v].shapes,
                             root |-> built[u][v].node]
                       ELSE NewRayForest(w, h)[u][v]]],
       calls |-> [px \in (0..(w - 1)) \X (0..(h - 1)) |-> built[px[1]][px[2]].calls],
       panicked |-> \E u \in 0..(cam.x_res - 1), v \in 0..(cam.y_res - 1) : u >= w \/ v >= h]

\* the cells whose root hit is shape_id
trees_rooted_at(f, shape_id) ==
  Cardinality({px \in {<<u, v>> : u \in DOMAIN f, v \in DOMAIN f[0]} :
                 /\ f[px[1]][px[2]].root.tag = "Branch"
                 /\ f[px[1]][px[2]].root.i.id = shape_id})

\* RayForest::trees_with
trees_with(f, shape_id) ==
  Cardinality({px \in {<<u, v>> : u \in DOMAIN f, v \in DOMAIN f[0]} :
                 shape_id \in f[px[1]][px[2]].shapes})

Pixels(buf) == (0..(buf.w - 1)) \X (0..(buf.h - 1))

\* the pixels of buf the forest holds no tree for
missing_cells(f, buf) ==
  {px \in Pixels(buf) : px[1] \notin DOMAIN f \/ px[2] \notin DOMAIN f[px[1]]}

\* the loop order of render_forest: u outside, v inside
visited_before(px, q) == px[1] < q[1] \/ (px[1] = q[1] /\ px[2] < q[2])

\* the pixels the loop reaches before it indexes a cell the forest does not hold
reached_cells(f, buf) ==
  {px \in Pixels(buf) : \A q \in missing_cells(f, buf) : visited_before(px, q)}

\* a reduction that skips the cells whose tree is empty
render_forest_lit(f, buf, ambient) ==
  [buf |-> [buf EXCEPT !.buf = [u \in 0..(buf.w - 1) |-> [v \in 0..(buf.h - 1) |->
                                  IF <<u, v>> \in reached_cells(f, buf)
                                     /\ f[u][v].root.tag = "Branch"
                                    THEN render_ray_tree(f[u][v].root, ambient)[1]
                                    ELSE buf.buf[u][v]]]],
   assigned |-> {px \in reached_cells(f, buf) : f[px[1]][px[2]].root.tag = "Branch"},
   panicked |-> missing_cells(f, buf) # {}]

\* render_forest: every cell reduced and every pixel assigned, up to the first
\* index the forest does not hold, where the indexing panics
render_forest(f, buf, ambient) ==
  [buf |-> [buf EXCEPT !.buf = [u \in 0..(buf.w - 1) |-> [v \in 0..(buf.h - 1) |->
                                  IF <<u, v>> \in reached_cells(f, buf)
                                    THEN render_ray_tree(f[u][v].root, ambient)[1]
                                    ELSE buf.buf[u][v]]]],
   assigned |-> reached_cells(f, buf),
   panicked |-> missing_cells(f, buf) # {}]

\* a test that ignores the mutated set
touched_any(tree, mutated) == tree.shapes # {}

\* the test of render_forest_filter on one cell: the intersection is not empty
touched(tree, mutated) == (tree.shapes \cap mutated) # {}

\* a filtered reduction that reduces every cell
render_forest_unfiltered(f, buf, ambient, mutated) == render_forest(f, buf, ambient)

\* render_forest_filter: the buffer after the loop and the pixels it assigned,
\* up to the first index the forest does not hold, where the indexing panics
render_forest_filter(f, buf, ambient, mutated) ==
  [buf |-> [buf EXCEPT !.buf = [u \in 0..(buf.w - 1) |-> [v \in 0..(buf.h - 1) |->
                                  IF <<u, v>> \in reached_cells(f, buf)
                                     /\ touched(f[u][v], mutated)
                                    THEN render_ray_tree(f[u][v].root, ambient)[1]
                                    ELSE buf.buf[u][v]]]],
   assigned |-> {px \in reached_cells(f, buf) : touched(f[px[1]][px[2]], mutated)},
   panicked |-> missing_cells(f, buf) # {}]

(* ------------------------- scenes and materials ------------------------ *)
\* a primitive as its constructor leaves it: id 0 until add_shape numbers it
Primitive(facets, material) ==
  [kind |-> "Facets", id |-> 0, facets |-> facets, material |-> material]
Facet(p, n) == [p |-> p, n |-> n]
PointLight(pos, color) == [pos |-> pos, color |-> color]

HALF == Q(1, 2)

\* Scenes are chosen so that no light lies exactly opposite the eye direction at
\* a hit (there the half vector of phong is 0/0) and so that every light is seen
\* from every hit point along a lattice direction.

\* a slab and a wall on the camera's first ray, the wall also behind the camera:
\* two primitives along one ray, head-on mirror bounces, a way through the slab;
\* lit by the ambient term alone
Slab == Primitive({Facet(<<2, 0>>, <<-1, 0>>), Facet(<<3, 0>>, <<1, 0>>)}, 1)
Wall == Primitive({Facet(<<4, 0>>, <<-1, 0>>), Facet(<<-2, 0>>, <<1, 0>>)}, 2)

SceneSlabFirst == set_ambient(add_shape(add_shape(NewScene, Slab), Wall), HALF)

SceneWallFirst == set_ambient(add_shape(add_shape(NewScene, Wall), Slab), HALF)

\* a tilted mirror seen at 60 degrees, a second mirror above it (with a facet
\* beyond the light), and a third primitive that shares the first one's material
\* (with a facet between the second mirror and the light)
Tilted == Primitive({Facet(<<2, 0>>, <<-1, 1>>)}, 1)
Upper == Primitive({Facet(<<2, 2>>, <<0, -1>>), Facet(<<-1, 3>>, <<1, -1>>)}, 2)
Twin == Primitive({Facet(<<0, 3>>, <<0, -1>>)}, 1)
TwinShading == Primitive({Facet(<<0, 3>>, <<0, -1>>), Facet(<<1, 2>>, <<1, 0>>)}, 1)

SceneTilted ==
  set_ambient(add_light(add_shape(add_shape(add_shape(NewScene, Tilted), Upper), Twin),
                        PointLight(<<0, 2>>, WHITE)), WHITE)

SceneShaded ==
  set_ambient(add_light(add_shape(add_shape(add_shape(NewScene, Tilted), Upper), TwinShading),
                        PointLight(<<0, 2>>, WHITE)), HALF)

Mirror == Phong(HALF, HALF, WHITE, 2, HALF, QI(0))
Matte == Phong(WHITE, WHITE, BLACK, 2, QI(0), QI(0))
Glass == Phong(BLACK, HALF, WHITE, 2, QI(0), QI(1))
Inert == Phong(BLACK, BLACK, BLACK, 2, QI(0), QI(0))

\* the configurations a run starts from: scene, material cells, resolution
Configs ==
  << [scene |-> SceneSlabFirst, mats |-> <<Mirror, Matte>>, w |-> 2, h |-> 2],
     [scene |-> SceneWallFirst, mats |-> <<Glass, Mirror>>, w |-> 2, h |-> 2],
     [scene |-> SceneTilted, mats |-> <<Mirror, Matte>>, w |-> 2, h |-> 1],
     [scene |-> SceneShaded, mats |-> <<Inert, Inert>>, w |-> 2, h |-> 1] >>

\* the values an edit can give a material field
FieldValues ==
  [ambient |-> {BLACK, WHITE}, diffuse |-> {HALF, WHITE},
   specular |-> {BLACK, WHITE}, power |-> {2, 4},
   reflectivity |-> {QI(0), HALF}, refraction_index |-> {QI(0), QI(1)}]

ShapeIds == {scene.shapes[k].id : k \in 1..Len(scene.shapes)}

(* ------------------------------- actions ------------------------------- *)
\* Camera::new
NewCamera(x_res, y_res) == [origin |-> <<0, 0>>, x_res |-> x_res, y_res |-> y_res]

Init ==
  \E c \in 1..Len(Configs), d \in 0..MaxDepth :
    /\ scene = Configs[c].scene
    /\ mats = Configs[c].mats
    /\ camera = NewCamera(Configs[c].w, Configs[c].h)
    /\ depth = d
    /\ forest = None
    /\ forest_mats = Configs[c].mats
    /\ buffer = NewRenderBuffer(Configs[c].w, Configs[c].h)
    /\ mutated_shapes = {}
    /\ last = [op |-> "new"]
    /\ edits = 0

\* render.rs render: trace_ray for every camera pixel
Render ==
  LET traced == [px \in Pixels(buffer) |->
                   trace_ray(scene, get_ray(camera, px[1], px[2]), depth)]
  IN  /\ buffer' = [buffer EXCEPT !.buf = [u \in 0..(buffer.w - 1) |->
                       [v \in 0..(buffer.h - 1) |-> traced[<<u, v>>].color]]]
      /\ last' = [op |-> "render", assigned |-> Pixels(buffer),
                  calls |-> [px \in Pixels(buffer) |-> traced[px].calls]]
      /\ UNCHANGED <<scene, mats, camera, depth, forest, forest_mats, mutated_shapes, edits>>

\* generate_ray_forest for the current scene and materials; the forest is built
\* once per scene, camera and depth
Generate ==
  /\ forest = None
  /\ LET g == generate_ray_forest(camera, scene, buffer.w, buffer.h, depth)
     IN  /\ forest' = Some(g.forest)
         /\ last' = [op |-> "generate_ray_forest", calls |-> g.calls]
  /\ forest_mats' = mats
  /\ UNCHANGED <<scene, mats, camera, depth, buffer, mutated_shapes, edits>>

\* a full reduction that also resets the dirty flag of every tree it reduces
RenderForestMarking ==
  /\ forest # None
  /\ last.op # "panic"
  /\ LET r == render_forest(forest.v, buffer, scene.ambient)
     IN  /\ buffer' = r.buf
         /\ last' = [op |-> IF r.panicked THEN "panic" ELSE "render_forest",
                     assigned |-> r.assigned]
         /\ forest' = Some([u \in DOMAIN forest.v |-> [v \in DOMAIN forest.v[u] |->
                              IF <<u, v>> \in r.assigned
                                THEN [forest.v[u][v] EXCEPT !.dirty = FALSE]
                                ELSE forest.v[u][v]]])
  /\ UNCHANGED <<scene, mats, camera, depth, forest_mats, mutated_shapes, edits>>

\* render_forest on the forest and the buffer at hand; a panic ends the program
RenderForest ==
  /\ forest # None
  /\ last.op # "panic"
  /\ LET r == render_forest(forest.v, buffer, scene.ambient)
     IN  /\ buffer' = r.buf
         /\ last' = [op |-> IF r.panicked THEN "panic" ELSE "render_forest",
                     assigned |-> r.assigned]
  /\ UNCHANGED <<scene, mats, camera, depth, forest, forest_mats, mutated_shapes, edits>>

RenderForestFilter(mutated) ==
  /\ forest # None
  /\ LET r == render_forest_filter(forest.v, buffer, scene.ambient, mutated)
     IN  /\ buffer' = r.buf
         /\ last' = [op |-> "render_forest_filter", mutated |-> mutated,
                     assigned |-> r.assigned]
  /\ UNCHANGED <<scene, mats, camera, depth, forest, forest_mats, mutated_shapes, edits>>

\* a material parameter given a new value through a handle (get_material_mut)
EditMaterial(h, field, value) ==
  /\ edits < MaxEdits
  /\ value # mats[h][field]
  /\ mats' = [mats EXCEPT ![h][field] = value]
  /\ edits' = edits + 1
  /\ last' = [op |-> "edit", handle |-> h, field |-> field, value |-> value]
  /\ UNCHANGED <<scene, camera, depth, forest, forest_mats, buffer, mutated_shapes>>

Edit ==
  \E h \in DOMAIN mats, field \in DOMAIN FieldValues :
    \E value \in FieldValues[field] : EditMaterial(h, field, value)

\* gui.rs, a colour slider moved: the selected shape's id joins mutated_shapes
\* and its material's diffuse colour is set
SliderChanged(k, value) ==
  LET sphere == scene.shapes[k]
  IN  /\ edits < MaxEdits
      /\ value # mats[sphere.material].diffuse
      /\ mutated_shapes' = mutated_shapes \cup {sphere.id}
      /\ mats' = [mats EXCEPT ![sphere.material] = set_diffuse(@, value)]
      /\ edits' = edits + 1
      /\ last' = [op |-> "edit", handle |-> sphere.material, field |-> "diffuse",
                  value |-> value]
      /\ UNCHANGED <<scene, camera, depth, forest, forest_mats, buffer>>

Slider ==
  \E k \in 1..Len(scene.shapes), value \in FieldValues.diffuse : SliderChanged(k, value)

\* a Render button that leaves mutated_shapes as it is
RenderClickedKeeping ==
  /\ forest # None
  /\ LET r == render_forest_filter(forest.v, buffer, scene.ambient, mutated_shapes)
     IN  /\ buffer' = r.buf
         /\ last' = [op |-> "render_forest_filter", mutated |-> mutated_shapes,
                     assigned |-> r.assigned]
  /\ UNCHANGED <<scene, mats, camera, depth, forest, forest_mats, mutated_shapes, edits>>

\* gui.rs, the Render button: the filtered reduction over mutated_shapes, which
\* is then cleared
RenderClicked ==
  /\ forest # None
  /\ LET r == render_forest_filter(forest.v, buffer, scene.ambient, mutated_shapes)
     IN  /\ buffer' = r.buf
         /\ last' = [op |-> "render_forest_filter", mutated |-> mutated_shapes,
                     assigned |-> r.assigned]
  /\ mutated_shapes' = {}
  /\ UNCHANGED <<scene, mats, camera, depth, forest, forest_mats, edits>>

\* the interactive pipeline: build once, reduce in full or filtered, move sliders
Next ==
  \/ Generate
  \/ RenderForest
  \/ \E mutated \in SUBSET ShapeIds : RenderForestFilter(mutated)
  \/ Slider
  \/ RenderClicked

Spec == Init /\ [][Next]_vars

\* the one-shot tracer beside the forest, under edits of every material parameter
NextTrace ==
  \/ Render
  \/ Generate
  \/ RenderForest
  \/ Edit

SpecTrace == Init /\ [][NextTrace]_vars

\* the primitives a scene is assembled from
ShapePool == <<Slab, Wall, Tilted, Upper, Twin>>

\* the points rays are cast from when a scene is probed
ProbeOrigins == {<<0, 0>>, <<2, 1>>}

\* an empty scene before any add_shape
InitScene ==
  /\ scene = NewScene
  /\ mats = <<Mirror, Matte>>
  /\ camera = NewCamera(2, 2)
  /\ depth = 0
  /\ forest = None
  /\ forest_mats = <<Mirror, Matte>>
  /\ buffer = NewRenderBuffer(2, 2)
  /\ mutated_shapes = {}
  /\ last = [op |-> "new"]
  /\ edits = 0

\* Scene::add_shape with a primitive the scene does not hold yet
AddShape(k) ==
  /\ \A j \in 1..Len(scene.shapes) : scene.shapes[j].facets # ShapePool[k].facets
  /\ scene' = add_shape(scene, ShapePool[k])
  /\ last' = [op |-> "add_shape"]
  /\ UNCHANGED <<mats, camera, depth, forest, forest_mats, buffer, mutated_shapes, edits>>

\* Scene::intersect called with one ray
Intersect(ray) ==
  /\ last' = [op |-> "intersect", ray |-> ray, result |-> intersect(scene, ray)]
  /\ UNCHANGED <<scene, mats, camera, depth, forest, forest_mats, buffer,
                 mutated_shapes, edits>>

NextScene ==
  \/ \E k \in 1..Len(ShapePool) : AddShape(k)
  \/ \E o \in ProbeOrigins, k \in 1..6 : Intersect(Ray(o, Unit[k]))

SpecScene == InitScene /\ [][NextScene]_vars

(* ------------------- native primitives in a scene ---------------------- *)
\* the z coordinate one f32 step below 1: 1 - 2^-24
NearOne == Q(16777215, 16777216)

\* the primitives a scene of native shapes is assembled from: the unit sphere,
\* two planes facing -z within one f32 step of each other, a mirrored and
\* stretched plane, and the triangle of triangle.rs's tests
UnitSphere == NewSphere(1)
PlaneA == NewPlane(Point3(0, 0, 1), Vector3(0, 0, -1), 1)
PlaneB == NewPlane(<<QI(0), QI(0), NearOne>>, Vector3(0, 0, -1), 2)
PlaneC == set_transform(NewPlane(Point3(0, 0, 1), Vector3(0, 0, -1), 2),
                        scale(QI(1), QI(1), QI(-2))).v
TestTriangle == NewTriangle(Point3(2, -2, 0), Point3(-2, -2, 0), Point3(-2, 2, 0), 1)

PrimPool == <<UnitSphere, PlaneA, PlaneB, PlaneC, TestTriangle>>

\* the most primitives a scene of native shapes holds
MaxShapes == 2

\* the rays a scene of native shapes is probed with: axis-aligned, of length 1
\* and 2, from points on the integer grid
Origins3 ==
  {Point3(0, 0, 2), Point3(0, 1, 2), Point3(0, 0, 1), Point3(0, 0, 0),
   Point3(0, 0, -4), Point3(-1, -1, 2), Point3(-3, 0, 2), Point3(-1, -3, 2),
   Point3(-3, -3, 2)}
Directions3 ==
  {Vector3(0, 0, -1), Vector3(0, 0, 1), Vector3(0, 1, 0), Vector3(0, 0, -2)}
Rays3 == {Ray(o, d) : o \in Origins3, d \in Directions3}

\* rays whose direction has length EPSILON and 2 * EPSILON, along +z and -z
SlowDirections ==
  {<<QI(0), QI(0), Q(1, 8388608)>>, <<QI(0), QI(0), Q(-1, 8388608)>>,
   <<QI(0), QI(0), Q(1, 4194304)>>, <<QI(0), QI(0), Q(-1, 4194304)>>}
SlowRays == {Ray(o, d) : o \in {Point3(0, 0, 0), Point3(0, 0, 2)}, d \in SlowDirections}

\* the scenes slow rays are cast at: planes through integer points, where every
\* intermediate value of the arithmetic stays within 32-bit integers
OnGrid ==
  \A k \in 1..Len(scene.shapes) :
    /\ scene.shapes[k].kind = "Plane"
    /\ scene.shapes[k].origin[3][2] = 1

\* Scene::add_shape with a native primitive the scene does not hold yet
AddPrimitive(k) ==
  /\ Len(scene.shapes) < MaxShapes
  /\ \A j \in 1..Len(scene.shapes) : [scene.shapes[j] EXCEPT !.id = 0] # PrimPool[k]
  /\ scene' = add_shape(scene, PrimPool[k])
  /\ last' = [op |-> "add_shape"]
  /\ UNCHANGED <<mats, camera, depth, forest, forest_mats, buffer, mutated_shapes, edits>>

NextShapes ==
  \/ \E k \in 1..Len(PrimPool) : AddPrimitive(k)
  \/ \E ray \in Rays3 : Intersect(ray)
  \/ \E ray \in SlowRays : OnGrid /\ Intersect(ray)

SpecShapes == InitScene /\ [][NextShapes]_vars

(* ----------------------- placement transforms -------------------------- *)
\* the factors placement transforms are composed from: the matrices of
\* matrix.rs's tests, a scale that flattens y, a scale that shrinks z, a quarter
\* turn about x and a turn about z by atan(4/3)
Factors ==
  {scale(QI(2), QI(3), QI(4)), scale(QI(1), QI(0), QI(1)), scale(QI(1), QI(1), Q(1, 4)),
   translate(QI(2), QI(2), QI(-4)), rotate_x(90), rotate_z(53)}

\* the most factors in one placement transform
MaxFactors == 3

\* the products of at most n factors
RECURSIVE Products(_)
Products(n) ==
  IF n = 0 THEN {identity}
  ELSE Products(n - 1) \cup {mat_mul(p, f) : p \in Products(n - 1), f \in Factors}

Transforms == Products(MaxFactors)

\* a scene of one native primitive, not yet placed
InitMatrix ==
  \E k \in {1, 2, 5} :
    /\ scene = add_shape(NewScene, PrimPool[k])
    /\ mats = <<Mirror, Matte>>
    /\ camera = NewCamera(2, 2)
    /\ depth = 0
    /\ forest = None
    /\ forest_mats = <<Mirror, Matte>>
    /\ buffer = NewRenderBuffer(2, 2)
    /\ mutated_shapes = {}
    /\ last = [op |-> "new"]
    /\ edits = 0

\* set_transform(m) on the scene's primitive, placed once as in create_scene:
\* either the primitive takes m and the inverse, or inverse() panics and the
\* program ends
Placed(m, r) ==
  IF r.tag = "panic"
    THEN /\ last' = [op |-> "panic", msg |-> r.msg, m |-> m]
         /\ scene' = scene
    ELSE /\ last' = [op |-> "set_transform", m |-> m, swapped |-> inverse(m).v.swapped]
         /\ scene' = [scene EXCEPT !.shapes[1] = r.v]

SetTransform(m) ==
  /\ last.op = "new"
  /\ Placed(m, set_transform(scene.shapes[1], m))
  /\ UNCHANGED <<mats, camera, depth, forest, forest_mats, buffer, mutated_shapes, edits>>

NextMatrix == \E m \in Transforms : SetTransform(m)

SpecMatrix == InitMatrix /\ [][NextMatrix]_vars

(* ------------------- buffers handed to render_forest ------------------- *)
\* the largest width and height of a buffer handed to render_forest
MaxRes == 3

\* a RenderBuffer of the caller's own size and content, to be passed to
\* render_forest with the forest already built
PassBuffer(w, h, fill) ==
  /\ forest # None
  /\ last.op # "panic"
  /\ buffer' = [NewRenderBuffer(w, h) EXCEPT
                  !.buf = [u \in 0..(w - 1) |-> [v \in 0..(h - 1) |-> fill]]]
  /\ buffer' # buffer
  /\ last' = [op |-> "new_buffer"]
  /\ UNCHANGED <<scene, mats, camera, depth, forest, forest_mats, mutated_shapes, edits>>

NextBuffers ==
  \/ Generate
  \/ \E w \in 1..MaxRes, h \in 1..MaxRes, fill \in {BLACK, WHITE} : PassBuffer(w, h, fill)
  \/ RenderForest

SpecBuffers == Init /\ [][NextBuffers]_vars

(* ----------------------- cache equivalence (C1) ------------------------ *)
\* the colour trace_ray gives the camera ray of pixel px at the configured depth
Traced(px) == trace_ray(scene, get_ray(camera, px[1], px[2]), depth).color

\* C1: for a fixed scene, camera, resolution and depth, render_forest applied to
\* the forest of generate_ray_forest writes for every pixel the colour trace_ray
\* gives that pixel's camera ray, within the tolerance of Color's equality
C1_CacheEquivalence ==
  (last.op = "render_forest" /\ forest_mats = mats) =>
    \A px \in Pixels(buffer) : ColorEq(buffer.buf[px[1]][px[2]], Traced(px))

C1_Witness ==
  /\ last.op = "render_forest"
  /\ forest_mats = mats
  /\ \E px \in Pixels(buffer) : forest.v[px[1]][px[2]].root.tag = "Branch"

(* ---------------------- filtered reduction (C2-C4) --------------------- *)
\* the colour the reduction of forest cell px gives
Reduced(px) == render_ray_tree(forest.v[px[1]][px[2]].root, scene.ambient)[1]

\* C2: render_forest_filter overwrites pixel (u, v) if and only if the id set of
\* forest cell (u, v) meets the mutated set; an overwritten pixel holds the
\* cell's reduction and every other pixel keeps the value it had before the call
C2_FilterFrame ==
  [][last'.op = "render_forest_filter" =>
       \A px \in Pixels(buffer) :
         LET meets == (forest.v[px[1]][px[2]].shapes \cap last'.mutated) # {}
         IN  /\ (px \in last'.assigned) <=> meets
             /\ meets => buffer'.buf[px[1]][px[2]] = Reduced(px)
             /\ ~meets => buffer'.buf[px[1]][px[2]] = buffer.buf[px[1]][px[2]]]_vars

\* a filtered reduction that overwrote some pixels and kept others at a value
\* the reduction would not have given them
C2_Witness ==
  /\ last.op = "render_forest_filter"
  /\ last.assigned # {}
  /\ \E px \in Pixels(buffer) \ last.assigned : buffer.buf[px[1]][px[2]] # Reduced(px)

\* C3: for a single id S, the number of pixels render_forest_filter with {S}
\* overwrites is trees_with(S)
C3_FilterCount ==
  last.op = "render_forest_filter" =>
    \A S \in ShapeIds :
      last.mutated = {S} => Cardinality(last.assigned) = trees_with(forest.v, S)

\* a filtered reduction for one id that overwrote some but not all pixels
C3_Witness ==
  /\ last.op = "render_forest_filter"
  /\ Cardinality(last.mutated) = 1
  /\ last.assigned # {}
  /\ last.assigned # Pixels(buffer)

\* C4: render_forest_filter with the empty mutated set leaves every pixel of the
\* buffer as it was
C4_EmptyFilterKeepsBuffer ==
  [][(last'.op = "render_forest_filter" /\ last'.mutated = {}) => buffer' = buffer]_vars

\* an empty filtered reduction over a buffer that a full reduction would change
C4_Witness ==
  /\ last.op = "render_forest_filter"
  /\ last.mutated = {}
  /\ last.assigned = {}
  /\ \E px \in Pixels(buffer) : buffer.buf[px[1]][px[2]] # Reduced(px)

(* ------------------------ material edits (C5, C6) ---------------------- *)
\* the buffer a full reduction of a forest built now would give
FreshlyReduced ==
  render_forest(generate_ray_forest(camera, scene, buffer.w, buffer.h, depth).forest,
                buffer, scene.ambient).buf

\* C5: after any edits of material parameters, with camera, resolution, depth
\* and geometry unchanged, render_forest on the existing forest gives the
\* buffer that render_forest gives on a forest freshly built from the edited
\* scene
C5_ForestValidAcrossEdits ==
  last.op = "render_forest" => buffer = FreshlyReduced

\* a full reduction of a forest built before the materials were edited
C5_Witness ==
  /\ last.op = "render_forest"
  /\ forest_mats # mats
  /\ \E px \in Pixels(buffer) : forest.v[px[1]][px[2]].root.tag = "Branch"

\* a node whose reflected and refracted children are both empty
IsLeaf(node) ==
  node.tag = "Branch" /\ node.reflected = NoneNode /\ node.refracted = NoneNode

\* the light term of a node, its material given as a value
RECURSIVE LeafLights(_, _, _, _)
LeafLights(samples, k, i, m) ==
  IF k > Len(samples) THEN BLACK
  ELSE LET n == IF i.entering THEN <<QI(1), m.refraction_index>>
                              ELSE <<m.refraction_index, QI(1)>>
           fresnel == fresnel_reflection(samples[k][1], i.normal, n[1], n[2])
       IN  QAdd(QMul(fresnel, get_reflected_energy(m, samples[k][2], samples[k][1], i)),
                LeafLights(samples, k + 1, i, m))

\* the colour of a leaf whose material is read from cells
LeafColour(node, cells, ambient) ==
  QAdd(QMul(cells[node.i.material].ambient, ambient),
       LeafLights(node.lights, 1, node.i, cells[node.i.material]))

\* C6: a mutation made through one handle of a shared material is read back by
\* every primitive holding that material, and the next reduction of a cached
\* Intersection uses the new value without a rebuild
C6_SharedMaterialVisible ==
  /\ last.op = "edit" =>
       \A k \in 1..Len(scene.shapes) :
         scene.shapes[k].material = last.handle =>
           borrow(scene.shapes[k].material)[last.field] = last.value
  /\ last.op = "render_forest" =>
       \A px \in Pixels(buffer) :
         IsLeaf(forest.v[px[1]][px[2]].root) =>
           buffer.buf[px[1]][px[2]] = LeafColour(forest.v[px[1]][px[2]].root, mats, scene.ambient)

\* a full reduction after an edit: two cached hits of different primitives share
\* the edited material, and both pixels show the new value
C6_Witness ==
  /\ last.op = "render_forest"
  /\ \E p1, p2 \in Pixels(buffer) :
       LET r1 == forest.v[p1[1]][p1[2]].root
           r2 == forest.v[p2[1]][p2[2]].root
       IN  /\ IsLeaf(r1) /\ IsLeaf(r2)
           /\ r1.i.id # r2.i.id
           /\ r1.i.material = r2.i.material
           /\ mats[r1.i.material].diffuse # forest_mats[r1.i.material].diffuse
           /\ buffer.buf[p1[1]][p1[2]] # LeafColour(r1, forest_mats, scene.ambient)
           /\ buffer.buf[p2[1]][p2[2]] # LeafColour(r2, forest_mats, scene.ambient)

(* ------------------------ tracer base cases (C7-C9) -------------------- *)
\* the camera ray of pixel px
PixelRay(px) == get_ray(camera, px[1], px[2])

\* C7: at depth 0 trace_ray returns black and build_ray_tree returns the empty
\* tree, and neither calls Scene::intersect
C7_DepthZero ==
  depth = 0 =>
    /\ last.op = "render" =>
         \A px \in Pixels(buffer) :
           buffer.buf[px[1]][px[2]] = BLACK /\ last.calls[px] = 0
    /\ last.op = "generate_ray_forest" =>
         \A px \in Pixels(buffer) :
           forest.v[px[1]][px[2]].root = NoneNode /\ last.calls[px] = 0

\* a render at depth 0, after the forest was built at depth 0, of a pixel whose
\* ray meets a primitive
C7_Witness ==
  /\ depth = 0
  /\ last.op = "render"
  /\ forest # None
  /\ \E px \in Pixels(buffer) : intersect(scene, PixelRay(px)) # None

\* C8: for a ray that hits no primitive, trace_ray at a depth above 0 returns
\* black and calls Scene::intersect exactly once
C8_MissIsBlack ==
  (last.op = "render" /\ depth > 0) =>
    \A px \in Pixels(buffer) :
      intersect(scene, PixelRay(px)) = None =>
        buffer.buf[px[1]][px[2]] = BLACK /\ last.calls[px] = 1

\* a render above depth 0 with a pixel whose ray misses and a pixel that is lit
C8_Witness ==
  /\ last.op = "render"
  /\ depth > 0
  /\ scene.ambient # BLACK
  /\ \E px \in Pixels(buffer) : intersect(scene, PixelRay(px)) = None
  /\ \E px \in Pixels(buffer) : buffer.buf[px[1]][px[2]] # BLACK

\* ambient = diffuse = specular = black, reflectivity = 0, refraction index = 0
IsInert(m) ==
  /\ m.ambient = BLACK /\ m.diffuse = BLACK /\ m.specular = BLACK
  /\ m.reflectivity = QI(0) /\ m.refraction_index = QI(0)

Hits(sc, ray) ==
  {ShapeIntersect(sc.shapes[k], ray) : k \in 1..Len(sc.shapes)} \ {None}

\* C10: Scene::intersect returns None exactly when no primitive reports a hit,
\* and otherwise a reported hit whose t is the least among the reported hits,
\* whatever the number and insertion order of the primitives
C10_IntersectNearest ==
  last.op = "intersect" =>
    LET hits == Hits(scene, last.ray)
    IN  /\ (last.result = None) <=> (hits = {})
        /\ last.result # None =>
             /\ last.result \in hits
             /\ \A h \in hits : QLe(last.result.v.t, h.v.t)

\* a probe whose nearest hit belongs to a primitive added after a farther one
C10_Witness ==
  /\ last.op = "intersect"
  /\ last.result # None
  /\ \E j, k \in 1..Len(scene.shapes) :
       LET far == ShapeIntersect(scene.shapes[j], last.ray)
           near == ShapeIntersect(scene.shapes[k], last.ray)
       IN  /\ j < k
           /\ far # None /\ near # None
           /\ QLt(near.v.t, far.v.t)
           /\ last.result = near
           /\ near.v.material # far.v.material

(* --------------------------- ties in t (C11) --------------------------- *)
\* the hit primitive k of the scene reports for the last ray
HitOf(k) == ShapeIntersect(scene.shapes[k], last.ray)

\* primitives j and k both report a hit for the last ray, and the two t values
\* differ by less than EPSILON
Tied(j, k) ==
  /\ HitOf(j) # None
  /\ HitOf(k) # None
  /\ BelowEps(QSub(HitOf(j).v.t, HitOf(k).v.t))

\* C11: when two primitives report hits whose t values are equal within float
\* epsilon, Scene::intersect returns the hit of the primitive inserted first:
\* the later of the two never wins the tie
C11_TieGoesToFirst ==
  last.op = "intersect" =>
    \A j, k \in 1..Len(scene.shapes) :
      (j < k /\ Tied(j, k)) => last.result # HitOf(k)

\* a probe on which two primitives report t values that differ, by less than
\* EPSILON
C11_Witness ==
  /\ last.op = "intersect"
  /\ \E j, k \in 1..Len(scene.shapes) :
       j < k /\ Tied(j, k) /\ HitOf(j).v.t # HitOf(k).v.t

(* ------------------------- shape ids (C12) ----------------------------- *)
\* the shape at position k (counted from 0) has id k
IdsFollowInsertion ==
  \A k \in 1..Len(scene.shapes) : scene.shapes[k].id = k - 1

\* no step changes the id of a shape the scene already holds
IdsKept ==
  /\ Len(scene'.shapes) >= Len(scene.shapes)
  /\ \A k \in 1..Len(scene.shapes) : scene'.shapes[k].id = scene.shapes[k].id

\* C12: after any sequence of add_shape calls the shape at position k of the
\* scene has id k (0-based), so ids are distinct and follow insertion order,
\* and no later step changes the id of a shape already held
C12_IdsAreInsertionIndices == [](IdsFollowInsertion) /\ [][IdsKept]_vars

\* three shapes inserted, then the scene probed
C12_Witness ==
  /\ Len(scene.shapes) >= 3
  /\ last.op = "intersect"
  /\ \A j, k \in 1..Len(scene.shapes) : j # k => scene.shapes[j].id # scene.shapes[k].id

(* ------------------------ full reduction (C13) ------------------------- *)
\* the forest holds a tree for every pixel of the buffer
Covers ==
  \A px \in Pixels(buffer) : px[1] \in DOMAIN forest.v /\ px[2] \in DOMAIN forest.v[px[1]]

\* render_forest returned, having written to every pixel the reduction of its tree
WroteAll ==
  /\ last.op = "render_forest"
  /\ last.assigned = Pixels(buffer)
  /\ \A px \in Pixels(buffer) : buffer.buf[px[1]][px[2]] = Reduced(px)

LocalRay(shape) == transform_ray(shape.inv_transform, last.ray)

\* a, b and c of the quadratic |origin + t * direction|^2 = 1 in that frame
SphereA(shape) == dot3(LocalRay(shape).direction, LocalRay(shape).direction)
SphereB(shape) == QMul(QI(2), dot3(LocalRay(shape).direction, LocalRay(shape).origin))
SphereC(shape) == QSub(dot3(LocalRay(shape).origin, LocalRay(shape).origin), QI(1))

SphereDiscr(shape) ==
  QSub(QMul(SphereB(shape), SphereB(shape)),
       QMul(QI(4), QMul(SphereA(shape), SphereC(shape))))

\* the two roots solve_quadratic returns, in order
SphereSolution(shape) == solve_quadratic(SphereA(shape), SphereB(shape), SphereC(shape))
Smaller(sol) == IF QLt(sol.v[2], sol.v[1]) THEN sol.v[2] ELSE sol.v[1]
Larger(sol) == IF QLt(sol.v[2], sol.v[1]) THEN sol.v[1] ELSE sol.v[2]

\* what Sphere::intersect reports against the roots: none for a negative
\* discriminant; the smaller root, entering, when it is positive; the larger
\* root, not entering, when the smaller one is zero or negative and a hit is
\* reported at all
FollowsRoots(shape, r, sol) ==
  IF QLt(SphereDiscr(shape), QI(0)) THEN r = None
  ELSE /\ QGt(Smaller(sol), QI(0)) =>
            (r # None /\ r.v.t = Smaller(sol) /\ r.v.entering)
       /\ (~QGt(Smaller(sol), QI(0)) /\ r # None) =>
            (r.v.t = Larger(sol) /\ ~r.v.entering)

TowardSphere == Ray(Point3(0, 0, 2), Vector3(0, 0, -1))
PastSphere == Ray(Point3(0, 0, 2), Vector3(0, 1, 0))

\* C15: the unit sphere with the identity transform, met by the ray from
\* (0,0,2) along (0,0,-1), reports t = 1, entering, normal (0,0,1); the ray
\* from (0,0,2) along (0,1,0) reports no hit
C15_UnitSphereExample ==
  \A k \in 1..Len(scene.shapes) :
    (scene.shapes[k].kind = "Sphere" /\ scene.shapes[k].transform = identity) =>
      /\ ShapeIntersect(scene.shapes[k], TowardSphere) # None
      /\ ShapeIntersect(scene.shapes[k], TowardSphere).v.t = QI(1)
      /\ ShapeIntersect(scene.shapes[k], TowardSphere).v.entering
      /\ ShapeIntersect(scene.shapes[k], TowardSphere).v.normal = Vector3(0, 0, 1)
      /\ ShapeIntersect(scene.shapes[k], PastSphere) = None
      /\ (last.op = "intersect" /\ last.ray = PastSphere /\ Len(scene.shapes) = 1) =>
            last.result = None

\* the unit sphere alone in the scene, probed with the first ray
C15_Witness ==
  /\ Len(scene.shapes) = 1
  /\ scene.shapes[1].kind = "Sphere"
  /\ scene.shapes[1].transform = identity
  /\ last.op = "intersect"
  /\ last.ray = TowardSphere
  /\ last.result # None
  /\ last.result.v.t = QI(1)
  /\ last.result.v.normal = Vector3(0, 0, 1)

(* -------------------------- plane facing (C16) ------------------------- *)
\* -(normal . direction) for the last ray in the plane's frame
PlaneDenom(shape) == QNeg(dot3(shape.normal, LocalRay(shape).direction))

\* C16: Plane::intersect reports a hit only when the ray direction faces the
\* plane, -(normal . direction) > epsilon with a strict comparison, and always
\* then; rays parallel to the plane and rays arriving from behind never hit
C16_PlaneFacing ==
  last.op = "intersect" =>
    \A k \in 1..Len(scene.shapes) :
      scene.shapes[k].kind = "Plane" =>
        (HitOf(k) # None <=> AboveEps(PlaneDenom(scene.shapes[k])))

\* a ray that faces the plane with -(normal . direction) no more than EPSILON,
\* and is reported as a miss
C16_Witness ==
  /\ last.op = "intersect"
  /\ \E k \in 1..Len(scene.shapes) :
       /\ scene.shapes[k].kind = "Plane"
       /\ QGt(PlaneDenom(scene.shapes[k]), QI(0))
       /\ ~AboveEps(PlaneDenom(scene.shapes[k]))
       /\ HitOf(k) = None
       /\ last.result = None

(* ------------------------ triangle tests (C17) ------------------------- *)
\* the quantities of the Moller-Trumbore test for the last ray
TriV0V1(shape) == sub3(shape.verts[2], shape.verts[1])
TriV0V2(shape) == sub3(shape.verts[3], shape.verts[1])
TriT0(shape) == sub3(last.ray.origin, shape.verts[1])
TriDet(shape) == dot3(TriV0V1(shape), cross(last.ray.direction, TriV0V2(shape)))
TriU(shape) == QDiv(dot3(TriT0(shape), cross(last.ray.direction, TriV0V2(shape))),
                    TriDet(shape))
TriV(shape) == QDiv(dot3(last.ray.direction, cross(TriT0(shape), TriV0V1(shape))),
                    TriDet(shape))
TriT(shape) == QDiv(dot3(TriV0V2(shape), cross(TriT0(shape), TriV0V1(shape))),
                    TriDet(shape))

\* one of the six rejections applies
TriRejected(shape) ==
  \/ BelowEps(TriDet(shape))
  \/ QLt(TriU(shape), QI(0))
  \/ QGt(TriU(shape), QI(1))
  \/ QLt(TriV(shape), QI(0))
  \/ QGt(QAdd(TriU(shape), TriV(shape)), QI(1))
  \/ QLt(TriT(shape), QI(0))

\* C17: Triangle::intersect returns None when |det| < epsilon, when u < 0 or
\* u > 1, when v < 0 or u + v > 1, or when t < 0; otherwise it returns a hit at
\* t whose entering flag is det > 0
C17_TriangleTests ==
  last.op = "intersect" =>
    \A k \in 1..Len(scene.shapes) :
      scene.shapes[k].kind = "Triangle" =>
        IF TriRejected(scene.shapes[k]) THEN HitOf(k) = None
        ELSE /\ HitOf(k) # None
             /\ HitOf(k).v.t = TriT(scene.shapes[k])
             /\ HitOf(k).v.entering <=> QGt(TriDet(scene.shapes[k]), QI(0))

\* a ray whose line crosses the triangle inside its edges, behind the origin
C17_Witness ==
  /\ last.op = "intersect"
  /\ \E k \in 1..Len(scene.shapes) :
       /\ scene.shapes[k].kind = "Triangle"
       /\ ~BelowEps(TriDet(scene.shapes[k]))
       /\ ~QLt(TriU(scene.shapes[k]), QI(0))
       /\ ~QLt(TriV(scene.shapes[k]), QI(0))
       /\ ~QGt(QAdd(TriU(scene.shapes[k]), TriV(scene.shapes[k])), QI(1))
       /\ QLt(TriT(scene.shapes[k]), QI(0))
       /\ HitOf(k) = None

(* ----------------------- matrix inversion (C18, C19) ------------------- *)
\* the determinant of the 3x3 block of m on rows 1..3 and the columns c
Det3(m, c) ==
  QSub(QAdd(QAdd(QMul(m[1][c[1]], QMul(m[2][c[2]], m[3][c[3]])),
                 QMul(m[1][c[2]], QMul(m[2][c[3]], m[3][c[1]]))),
            QMul(m[1][c[3]], QMul(m[2][c[1]], m[3][c[2]]))),
       QAdd(QAdd(QMul(m[1][c[3]], QMul(m[2][c[2]], m[3][c[1]])),
                 QMul(m[1][c[2]], QMul(m[2][c[1]], m[3][c[3]]))),
            QMul(m[1][c[1]], QMul(m[2][c[3]], m[3][c[2]]))))

\* the determinant of m, expanded along its last row
Det(m) ==
  QAdd(QSub(QMul(m[4][2], Det3(m, <<1, 3, 4>>)), QMul(m[4][1], Det3(m, <<2, 3, 4>>))),
       QSub(QMul(m[4][4], Det3(m, <<1, 2, 3>>)), QMul(m[4][3], Det3(m, <<1, 2, 4>>))))

Singular(m) == Det(m) = QI(0)

\* C18: a placement transform that is not invertible always ends in the fatal
\* 'Singular Matrix' error: for a singular matrix, set_transform never returns
\* with a cached inverse, finite or not
C18_SingularAlwaysPanics ==
  last.op \in {"set_transform", "panic"} =>
    (Singular(last.m) => (last.op = "panic" /\ last.msg = "Singular Matrix"))

\* a singular transform on which inverse() panicked
C18_Witness ==
  /\ last.op = "panic"
  /\ last.msg = "Singular Matrix"
  /\ Singular(last.m)

\* the tolerance of matrix.rs's inverse test, 2 * EPSILON
TwoEpsilon == <<1, 4194304>>

\* mat_equal of matrix.rs's tests: every entry differs by less than eps = 1/n
mat_equal(a, b, eps) ==
  \A row \in 1..4, col \in 1..4 :
    Abs(QSub(a[row][col], b[row][col])[1])
      <= (QSub(a[row][col], b[row][col])[2] - 1) \div eps[2]

\* inv is finite and a two-sided inverse of m within the tolerance
IsInverse(m, inv) ==
  /\ FiniteMatrix(inv)
  /\ mat_equal(identity, mat_mul(m, inv), TwoEpsilon)
  /\ mat_equal(identity, mat_mul(inv, m), TwoEpsilon)

\* C19: for every invertible matrix composed from scale, translate and rotate,
\* the inverse set_transform caches is a two-sided inverse within tolerance,
\* also when a zero pivot forces a row swap
C19_InverseIsTwoSided ==
  (last.op = "set_transform" /\ ~Singular(last.m)) =>
    IsInverse(last.m, scene.shapes[1].inv_transform)

\* an invertible transform whose inversion swapped rows and came out right
C19_Witness ==
  /\ last.op = "set_transform"
  /\ last.swapped
  /\ ~Singular(last.m)
  /\ IsInverse(last.m, scene.shapes[1].inv_transform)

(* --------------------------- tree size (C20) --------------------------- *)
\* the ways down from a root: a choice of child at every level, as far as the
\* deepest tree goes
Paths == UNION {[1..n -> {"reflected", "refracted"}] : n \in 0..MaxDepth}

\* the node a path leads to, the empty node once the path leaves the tree
RECURSIVE NodeAt(_, _)
NodeAt(node, path) ==
  IF path = <<>> THEN node
  ELSE IF node.tag = "None" THEN NoneNode
  ELSE NodeAt(IF Head(path) = "reflected" THEN node.reflected ELSE node.refracted,
              Tail(path))

\* the branch nodes of a tree, each named by its path
Branches(tree) == {p \in Paths : NodeAt(tree.root, p).tag = "Branch"}

\* C20: RayTree::size is the number of branch nodes of the tree: 0 for the
\* empty tree, and one more than the sizes below a branch
C20_SizeCountsBranches ==
  forest # None =>
    \A u \in DOMAIN forest.v :
      \A v \in DOMAIN forest.v[u] :
        size(forest.v[u][v]) = Cardinality(Branches(forest.v[u][v]))

\* a forest with an empty tree and a tree whose root has two branch children
C20_Witness ==
  /\ forest # None
  /\ \E u \in DOMAIN forest.v :
       \E v \in DOMAIN forest.v[u] : size(forest.v[u][v]) = 0
  /\ \E u \in DOMAIN forest.v :
       \E v \in DOMAIN forest.v[u] :
         /\ forest.v[u][v].root.tag = "Branch"
         /\ forest.v[u][v].root.reflected.tag = "Branch"
         /\ forest.v[u][v].root.refracted.tag = "Branch"
         /\ size(forest.v[u][v]) >= 3

(* ------------------------ bounded recursion (C21) ---------------------- *)
\* the number of levels of a tree: 0 for the empty node
RECURSIVE Height(_)
Height(node) ==
  IF node.tag = "None" THEN 0
  ELSE 1 + (IF Height(node.reflected) >= Height(node.refracted)
              THEN Height(node.reflected) ELSE Height(node.refracted))

\* the most Scene::intersect invocations a recursion of depth d can make: one
\* for the ray and one per light at each of at most 2^d - 1 hits
MostCalls(d) == (2 ^ d - 1) * (1 + Len(scene.lights))

\* C21: build_ray_tree and trace_ray terminate, each recursive call at a depth
\* one less than its caller's: a tree built with depth d has height at most d
\* and at most 2^d - 1 branch nodes, and neither recursion makes more than
\* (2^d - 1) * (1 + lights) intersection tests for a pixel, whatever the scene
C21_RecursionBounded ==
  /\ forest # None =>
       \A u \in DOMAIN forest.v :
         \A v \in DOMAIN forest.v[u] :
           /\ Height(forest.v[u][v].root) <= depth
           /\ size(forest.v[u][v]) <= 2 ^ depth - 1
  /\ last.op \in {"render", "generate_ray_forest"} =>
       \A px \in DOMAIN last.calls : last.calls[px] <= MostCalls(depth)

\* two surfaces that mirror each other: the forest holds a tree of full height
\* whose root and reflected child are both reflective, cut off by the depth
\* alone, and trace_ray has followed the same bounces for that pixel
C21_Witness ==
  /\ last.op = "render"
  /\ forest # None
  /\ forest_mats = mats
  /\ depth = MaxDepth
  /\ \E px \in Pixels(buffer) :
       /\ Height(forest.v[px[1]][px[2]].root) = depth
       /\ forest.v[px[1]][px[2]].root.reflected.tag = "Branch"
       /\ forest.v[px[1]][px[2]].root.reflected.i.id # forest.v[px[1]][px[2]].root.i.id
       /\ QGt(borrow(forest.v[px[1]][px[2]].root.i.material).reflectivity, EPSILON)
       /\ QGt(borrow(forest.v[px[1]][px[2]].root.reflected.i.material).reflectivity,
              EPSILON)
       /\ last.calls[px] >= depth

(* --------------------------- id sets (C22) ----------------------------- *)
\* the primitive ids of the Intersections held in the branch nodes of a tree
BranchIds(tree) == {NodeAt(tree.root, p).i.id : p \in Branches(tree)}

\* C22: after generate_ray_forest, the id set of every forest cell is exactly
\* the set of primitive ids of the Intersections in the branch nodes of that
\* cell's tree
C22_IdSetIsBranchIds ==
  forest # None =>
    \A u \in DOMAIN forest.v :
      \A v \in DOMAIN forest.v[u] : forest.v[u][v].shapes = BranchIds(forest.v[u][v])

\* a forest with an empty tree and empty id set beside a tree whose branches
\* below the root add a second id to the root's
C22_Witness ==
  /\ last.op = "generate_ray_forest"
  /\ \E u \in DOMAIN forest.v :
       \E v \in DOMAIN forest.v[u] :
         forest.v[u][v].shapes = {} /\ forest.v[u][v].root.tag = "None"
  /\ \E u \in DOMAIN forest.v :
       \E v \in DOMAIN forest.v[u] :
         /\ Cardinality(forest.v[u][v].shapes) >= 2
         /\ size(forest.v[u][v]) >= 2

(* --------------- children and total internal reflection (C23) ---------- *)
\* a dense glass block around the camera: its first face is met on the way out
\* at 60 degrees, beyond the critical angle of index 2, and its second face
\* head-on; a matte primitive stands behind each face
Dense == Phong(HALF, HALF, WHITE, 2, HALF, QI(2))
Block == Primitive({Facet(<<2, 0>>, <<0, 1>>), Facet(<<0, 2>>, <<0, 1>>)}, 1)
Backdrop == Primitive({Facet(<<3, -1>>, <<-1, 1>>), Facet(<<0, 3>>, <<0, -1>>)}, 2)
ScenePrism == set_ambient(add_shape(add_shape(NewScene, Block), Backdrop), HALF)

GlassConfigs ==
  << [scene |-> ScenePrism, mats |-> <<Dense, Matte>>, w |-> 2, h |-> 1],
     [scene |-> SceneWallFirst, mats |-> <<Glass, Mirror>>, w |-> 2, h |-> 2] >>

InitGlass ==
  \E c \in 1..Len(GlassConfigs), d \in 0..MaxDepth :
    /\ scene = GlassConfigs[c].scene
    /\ mats = GlassConfigs[c].mats
    /\ camera = NewCamera(GlassConfigs[c].w, GlassConfigs[c].h)
    /\ depth = d
    /\ forest = None
    /\ forest_mats = GlassConfigs[c].mats
    /\ buffer = NewRenderBuffer(GlassConfigs[c].w, GlassConfigs[c].h)
    /\ mutated_shapes = {}
    /\ last = [op |-> "new"]
    /\ edits = 0

\* the tracer and the forest over scenes of glass
SpecGlass == InitGlass /\ [][NextTrace]_vars

\* what refract_ray returns at hit i for the material cells ms: the ray arrives
\* against eye_dir, and (n1, n2) follow the entering flag
RefractedAt(i, ms) ==
  refract_ray(Ray(i.point, VNeg(i.eye_dir)), i,
              IF i.entering THEN QI(1) ELSE ms[i.material].refraction_index,
              IF i.entering THEN ms[i.material].refraction_index ELSE QI(1))

\* total internal reflection at hit i: the material refracts and refract_ray
\* returns no ray
TotalInternal(i, ms) ==
  QGt(ms[i.material].refraction_index, EPSILON) /\ RefractedAt(i, ms) = None

\* the refracted term render_ray_tree adds at a branch node
RefractedTerm(node) ==
  QMul(fresnel_refraction(render_ray_tree(node.refracted, scene.ambient)[2],
                          VNeg(node.i.normal), indices(node.i)[1], indices(node.i)[2]),
       render_ray_tree(node.refracted, scene.ambient)[1])

\* the colour of a branch node without its refracted term
ReducedUnrefracted(node) ==
  QAdd(QAdd(QMul(borrow(node.i.material).ambient, scene.ambient),
            light_sum(node.lights, 1, node.i)),
       QMul(fresnel_reflection(render_ray_tree(node.reflected, scene.ambient)[2],
                               node.i.normal, indices(node.i)[1], indices(node.i)[2]),
            get_reflected_energy(borrow(node.i.material),
                                 render_ray_tree(node.reflected, scene.ambient)[1],
                                 node.i.eye_dir, node.i)))

\* the colour trace_ray gives for hit i of ray without its refracted term
TracedUnrefracted(ray, i) ==
  QAdd(QAdd(QMul(borrow(i.material).ambient, scene.ambient),
            light_sum(get_light_energy(scene, i), 1, i)),
       IF QGt(borrow(i.material).reflectivity, EPSILON)
         THEN trace_reflected(scene, depth, i, indices(i), reflect_ray(ray, i)).color
         ELSE BLACK)

\* the children of one branch node against the materials the tree was built from
ChildrenFollowMaterial(node) ==
  /\ node.reflected.tag = "Branch" =>
       QGt(forest_mats[node.i.material].reflectivity, EPSILON)
  /\ node.refracted.tag = "Branch" =>
       /\ QGt(forest_mats[node.i.material].refraction_index, EPSILON)
       /\ RefractedAt(node.i, forest_mats) # None
  /\ TotalInternal(node.i, forest_mats) =>
       /\ node.refracted = NoneNode
       /\ RefractedTerm(node) = BLACK
       /\ render_ray_tree(node, scene.ambient)[1] = ReducedUnrefracted(node)

\* the pixels whose camera ray meets total internal reflection at its first hit
TirPixels ==
  {px \in Pixels(buffer) :
     /\ depth > 0
     /\ intersect(scene, PixelRay(px)) # None
     /\ TotalInternal(intersect(scene, PixelRay(px)).v, mats)}

\* C23: a branch's reflected child is non-empty only if the material's
\* reflectivity exceeded epsilon when the tree was built, its refracted child
\* only if the refraction index exceeded epsilon and refract_ray returned a
\* ray; under total internal reflection the refracted branch is empty and adds
\* black to the colour, in the reduction of the tree and in trace_ray alike
C23_ChildrenAndTotalInternal ==
  /\ forest # None =>
       \A u \in DOMAIN forest.v :
         \A v \in DOMAIN forest.v[u] :
           \A p \in Branches(forest.v[u][v]) :
             ChildrenFollowMaterial(NodeAt(forest.v[u][v].root, p))
  /\ last.op = "render" =>
       \A px \in TirPixels :
         buffer.buf[px[1]][px[2]] =
           TracedUnrefracted(PixelRay(px), intersect(scene, PixelRay(px)).v)

\* trace_ray has shaded a pixel whose first hit is totally internally reflecting,
\* and the forest holds that hit with a reflected child and no refracted one,
\* beside a branch that has a refracted child
C23_Witness ==
  /\ last.op = "render"
  /\ forest # None
  /\ forest_mats = mats
  /\ \E px \in TirPixels :
       /\ forest.v[px[1]][px[2]].root.tag = "Branch"
       /\ forest.v[px[1]][px[2]].root.reflected.tag = "Branch"
       /\ forest.v[px[1]][px[2]].root.refracted.tag = "None"
       /\ buffer.buf[px[1]][px[2]] # BLACK
  /\ \E px \in Pixels(buffer) :
       /\ forest.v[px[1]][px[2]].root.tag = "Branch"
       /\ forest.v[px[1]][px[2]].root.refracted.tag = "Branch"

(* ------------------------- the fast path (C24) ------------------------- *)
\* the buffer a full reduction of the forest gives now
FullyReduced == render_forest(forest.v, buffer, scene.ambient).buf

\* the slider closure on a built forest, with a record of the shape it edited
\* and of whether the buffer held the full reduction when the slider moved
EditShape(k, value) ==
  LET sphere == scene.shapes[k]
  IN  /\ forest # None
      /\ edits < MaxEdits
      /\ value # mats[sphere.material].diffuse
      /\ mutated_shapes' = mutated_shapes \cup {sphere.id}
      /\ mats' = [mats EXCEPT ![sphere.material] = set_diffuse(@, value)]
      /\ edits' = edits + 1
      /\ last' = [op |-> "edit", handle |-> sphere.material, field |-> "diffuse",
                  value |-> value, shape |-> sphere.id, fresh |-> buffer = FullyReduced]
      /\ UNCHANGED <<scene, camera, depth, forest, forest_mats, buffer>>

NextFast ==
  \/ Generate
  \/ RenderForest
  \/ \E k \in 1..Len(scene.shapes), value \in FieldValues.diffuse : EditShape(k, value)
  \/ \E mutated \in SUBSET ShapeIds : RenderForestFilter(mutated)
  \/ RenderClicked

\* full and filtered reductions around edits made shape by shape
SpecFast == Init /\ [][NextFast]_vars

\* C24: when the buffer holds the full reduction and the material of the shape
\* with id S is then edited through its handle, render_forest_filter with any
\* mutated set that contains S leaves the buffer equal to the full reduction
\* of the edited materials; no pixel stays stale, also when other shapes share
\* the material
C24_FastPathSound ==
  [][(/\ last.op = "edit"
      /\ last.fresh
      /\ last'.op = "render_forest_filter"
      /\ last.shape \in last'.mutated) => buffer' = FullyReduced]_vars

\* the filtered reduction after a slider edit that has overwritten some pixels,
\* left others, and left the buffer equal to the full reduction
C24_Witness ==
  /\ last.op = "render_forest_filter"
  /\ mats # forest_mats
  /\ last.mutated # {}
  /\ last.assigned # {}
  /\ last.assigned # Pixels(buffer)
  /\ buffer = FullyReduced

(* ---------------------- grids of any size (C25) ------------------------ *)
\* generate_ray_forest called with a grid of the caller's own size; a panic
\* ends the program
GenerateSized(w, h) ==
  /\ forest = None
  /\ last.op # "panic"
  /\ LET g == generate_ray_forest(camera, scene, w, h, depth)
     IN  /\ forest' = IF g.panicked THEN None ELSE Some(g.forest)
         /\ last' = IF g.panicked
                      THEN [op |-> "panic", assigned |-> {}]
                      ELSE [op |-> "generate_ray_forest", calls |-> g.calls]
  /\ forest_mats' = mats
  /\ UNCHANGED <<scene, mats, camera, depth, buffer, mutated_shapes, edits>>

\* render_forest_filter on the forest and the buffer at hand
FilterSized(mutated) ==
  /\ forest # None
  /\ last.op # "panic"
  /\ LET r == render_forest_filter(forest.v, buffer, scene.ambient, mutated)
     IN  /\ buffer' = r.buf
         /\ last' = [op |-> IF r.panicked THEN "panic" ELSE "render_forest_filter",
                     mutated |-> mutated, assigned |-> r.assigned]
  /\ UNCHANGED <<scene, mats, camera, depth, forest, forest_mats, mutated_shapes, edits>>

NextSizes ==
  \/ \E w \in 1..MaxRes, h \in 1..MaxRes : GenerateSized(w, h)
  \/ \E w \in 1..MaxRes, h \in 1..MaxRes : PassBuffer(w, h, BLACK)
  \/ RenderForest
  \/ \E mutated \in SUBSET ShapeIds : FilterSized(mutated)

\* forests, cameras and buffers each of their own size
SpecSizes == Init /\ [][NextSizes]_vars

\* C25: generate_ray_forest builds a tree for every cell of the w x h grid and
\* never indexes a cell outside it, whatever the camera's resolution and w and
\* h; render_forest and render_forest_filter never index outside the forest,
\* whatever the size of the buffer
C25_IndexingInBounds ==
  /\ last.op # "panic"
  /\ forest # None =>
       \A u \in DOMAIN forest.v :
         \A v \in DOMAIN forest.v[u] : forest.v[u][v].dirty

\* a forest as large as the camera's resolution reduced in full and through the
\* filter into a smaller buffer, every index inside the forest
C25_Witness ==
  /\ last.op = "render_forest_filter"
  /\ last.assigned # {}
  /\ buffer.w < camera.x_res
  /\ \A u \in DOMAIN forest.v :
       \A v \in DOMAIN forest.v[u] : forest.v[u][v].dirty

(* ------------------------ pixel by pixel (C26) ------------------------- *)
\* The bodies of the loops of generate_ray_forest and render_forest, one pixel
\* a step and the pixels in any order.  last records the pixels built and
\* reduced so far.

\* a single id set for the whole forest
forest_shapes(f, px) == UNION {f[u][v].shapes : u \in DOMAIN f, v \in DOMAIN f[0]}

\* &mut ray_forest.forest[u][v].shapes, the id set build_ray_tree inserts into
cell_shapes(f, px) == f[px[1]][px[2]].shapes

\* RayForest::new(w, h)
AllocateForest ==
  /\ forest = None
  /\ forest' = Some(NewRayForest(buffer.w, buffer.h))
  /\ forest_mats' = mats
  /\ last' = [op |-> "cells", built |-> {}, reduced |-> {}]
  /\ UNCHANGED <<scene, mats, camera, depth, buffer, mutated_shapes, edits>>

\* the loop body of generate_ray_forest for pixel px
BuildCell(px) ==
  /\ forest # None
  /\ px \notin last.built
  /\ LET b == build_ray_tree(scene, get_ray(camera, px[1], px[2]), depth,
                             cell_shapes(forest.v, px))
     IN  forest' = Some([forest.v EXCEPT ![px[1]][px[2]] =
                           [dirty |-> TRUE, shapes |-> b.shapes, root |-> b.node]])
  /\ last' = [last EXCEPT !.built = @ \cup {px}]
  /\ UNCHANGED <<scene, mats, camera, depth, forest_mats, buffer, mutated_shapes, edits>>

\* the loop body of render_forest for pixel px, once its tree is built
ReduceCell(px) ==
  /\ forest # None
  /\ px \in last.built
  /\ px \notin last.reduced
  /\ buffer' = [buffer EXCEPT !.buf[px[1]][px[2]] =
                  render_ray_tree(forest.v[px[1]][px[2]].root, scene.ambient)[1]]
  /\ last' = [last EXCEPT !.reduced = @ \cup {px}]
  /\ UNCHANGED <<scene, mats, camera, depth, forest, forest_mats, mutated_shapes, edits>>

NextPixels ==
  \/ AllocateForest
  \/ \E px \in Pixels(buffer) : BuildCell(px)
  \/ \E px \in Pixels(buffer) : ReduceCell(px)

SpecPixels == Init /\ [][NextPixels]_vars

\* the forest the loops of generate_ray_forest build in their own order
WholeForest == generate_ray_forest(camera, scene, buffer.w, buffer.h, depth).forest

\* every pixel processed so far holds what the loops in their own order give it,
\* every other cell and pixel is as it was allocated
CellsAsInOrder ==
  forest # None =>
    \A px \in Pixels(buffer) :
      /\ forest.v[px[1]][px[2]] =
           IF px \in last.built THEN WholeForest[px[1]][px[2]] ELSE NewRayTree
      /\ buffer.buf[px[1]][px[2]] =
           IF px \in last.reduced
             THEN render_forest(WholeForest, buffer, scene.ambient).buf.buf[px[1]][px[2]]
             ELSE BLACK

\* a step for one pixel leaves the cells and pixels of every other pixel alone
OwnCellOnly ==
  \A px \in Pixels(buffer) :
    (BuildCell(px) \/ ReduceCell(px)) =>
      \A q \in Pixels(buffer) \ {px} :
        /\ forest'.v[q[1]][q[2]] = forest.v[q[1]][q[2]]
        /\ buffer'.buf[q[1]][q[2]] = buffer.buf[q[1]][q[2]]

\* C26: pixels are independent: the tree, id set and reduced colour of a pixel
\* depend only on that pixel's camera ray and the scene, so building and
\* reducing the pixels in any order or interleaving gives the forest and the
\* buffer the loops give, and no step for one pixel writes another pixel's cell
C26_PixelsIndependent == []CellsAsInOrder /\ [][OwnCellOnly]_vars

\* every pixel built and reduced, the last pixel of the loops built first and
\* the buffer showing at least two colours
C26_Witness ==
  /\ last.op = "cells"
  /\ last.reduced = Pixels(buffer)
  /\ Cardinality(Pixels(buffer)) >= 2
  /\ \E px, q \in Pixels(buffer) : buffer.buf[px[1]][px[2]] # buffer.buf[q[1]][q[2]]
  /\ \E px \in Pixels(buffer) : Cardinality(forest.v[px[1]][px[2]].shapes) >= 2

(* ------------------------ opaque scenes (C27) -------------------------- *)
\* scenes whose materials neither reflect nor refract: the lit scenes with matte
\* and inert cells, the slab and the wall with a matte and an inert cell
OpaqueConfigs ==
  << [scene |-> SceneTilted, mats |-> <<Matte, Matte>>, w |-> 2, h |-> 1],
     [scene |-> SceneShaded, mats |-> <<Inert, Matte>>, w |-> 2, h |-> 1],
     [scene |-> SceneSlabFirst, mats |-> <<Matte, Inert>>, w |-> 2, h |-> 2] >>

InitOpaque ==
  \E c \in 1..Len(OpaqueConfigs), d \in 0..MaxDepth :
    /\ scene = OpaqueConfigs[c].scene
    /\ mats = OpaqueConfigs[c].mats
    /\ camera = NewCamera(OpaqueConfigs[c].w, OpaqueConfigs[c].h)
    /\ depth = d
    /\ forest = None
    /\ forest_mats = OpaqueConfigs[c].mats
    /\ buffer = NewRenderBuffer(OpaqueConfigs[c].w, OpaqueConfigs[c].h)
    /\ mutated_shapes = {}
    /\ last = [op |-> "new"]
    /\ edits = 0

\* the tracer and the forest over opaque scenes, under material edits
SpecOpaque == InitOpaque /\ [][NextTrace]_vars

\* every material cell has reflectivity 0 and refraction index 0
AllOpaque(ms) ==
  \A h \in DOMAIN ms : ms[h].reflectivity = QI(0) /\ ms[h].refraction_index = QI(0)

\* the Fresnel-weighted energy hit i reflects from the lights k, k + 1, ...
RECURSIVE DirectLight(_, _)
DirectLight(k, i) ==
  IF k > Len(scene.lights) THEN BLACK
  ELSE LET sample == get_energy(scene.lights[k], scene, i.point)
       IN  QAdd(QMul(fresnel_reflection(sample[1], i.normal,
                                        indices(i)[1], indices(i)[2]),
                     get_reflected_energy(borrow(i.material), sample[2], sample[1], i)),
                DirectLight(k + 1, i))

\* the colour of a pixel with no secondary rays: the ambient term and the
\* direct light of the first hit, black without a hit or at depth 0
DirectColour(px) ==
  IF depth = 0 \/ intersect(scene, PixelRay(px)) = None THEN BLACK
  ELSE QAdd(QMul(borrow(intersect(scene, PixelRay(px)).v.material).ambient, scene.ambient),
            DirectLight(1, intersect(scene, PixelRay(px)).v))

\* C27: in a scene where every material has reflectivity 0 and refraction
\* index 0, render_forest on the built forest gives every pixel exactly the
\* colour trace_ray gives it: the material's ambient times the scene's ambient
\* plus the Fresnel-weighted reflected energy of each light sample
C27_OpaqueScenesAgree ==
  (last.op = "render_forest" /\ AllOpaque(mats) /\ AllOpaque(forest_mats)) =>
    \A px \in Pixels(buffer) :
      /\ buffer.buf[px[1]][px[2]] = Traced(px)
      /\ buffer.buf[px[1]][px[2]] = DirectColour(px)

\* a full reduction of an opaque, lit scene with a pixel that is not black
C27_Witness ==
  /\ last.op = "render_forest"
  /\ AllOpaque(mats)
  /\ AllOpaque(forest_mats)
  /\ Len(scene.lights) > 0
  /\ \E px \in Pixels(buffer) :
       /\ forest.v[px[1]][px[2]].root.tag = "Branch"
       /\ buffer.buf[px[1]][px[2]] # BLACK
       /\ buffer.buf[px[1]][px[2]] #
            QMul(borrow(forest.v[px[1]][px[2]].root.i.material).ambient, scene.ambient)

(* ------------------------ hits ahead only (C28) ------------------------ *)
\* C28: every Intersection a sphere, plane or triangle returns, and so every
\* Intersection Scene::intersect returns, has t >= 0: a surface behind the
\* origin of the ray is never reported
C28_HitsAhead ==
  last.op = "intersect" =>
    /\ \A k \in 1..Len(scene.shapes) :
         HitOf(k) # None => QLe(QI(0), HitOf(k).v.t)
    /\ last.result # None => QLe(QI(0), last.result.v.t)

\* a ray cast away from the sphere and the triangle that lie behind its
\* origin: neither reports a hit and the scene reports none
C28_Witness ==
  /\ last.op = "intersect"
  /\ last.ray = Ray(Point3(0, 0, -4), Vector3(0, 0, -1))
  /\ last.result = None
  /\ \E k \in 1..Len(scene.shapes) : scene.shapes[k].kind = "Sphere"
  /\ \E k \in 1..Len(scene.shapes) : scene.shapes[k].kind = "Triangle"

(* ----------------------- the mutated set (C29) ------------------------- *)
\* the most slider moves of a GUI session
MaxSlides == 2

\* gui.rs, a colour slider moved, in a session of up to MaxSlides moves
SliderMoved(k, value) ==
  LET sphere == scene.shapes[k]
  IN  /\ edits < MaxSlides
      /\ value # mats[sphere.material].diffuse
      /\ mutated_shapes' = mutated_shapes \cup {sphere.id}
      /\ mats' = [mats EXCEPT ![sphere.material] = set_diffuse(@, value)]
      /\ edits' = edits + 1
      /\ last' = [op |-> "edit", handle |-> sphere.material, field |-> "diffuse",
                  value |-> value]
      /\ UNCHANGED <<scene, camera, depth, forest, forest_mats, buffer>>

\* the GUI session: the forest built at start-up, then sliders and the Render
\* button in any order
NextGui ==
  \/ Generate
  \/ \E k \in 1..Len(scene.shapes), value \in FieldValues.diffuse : SliderMoved(k, value)
  \/ RenderClicked

SpecGui == Init /\ [][NextGui]_vars

\* the pixels whose tree holds a shape of the set ids
PixelsHolding(ids) ==
  {px \in Pixels(buffer) : (forest.v[px[1]][px[2]].shapes \cap ids) # {}}

\* a slider edit puts the edited shape's id in the mutated set
SliderMarks ==
  \A k \in 1..Len(scene.shapes), value \in FieldValues.diffuse :
    SliderMoved(k, value) => scene.shapes[k].id \in mutated_shapes'

\* a Render click passes the mutated set as it stands to render_forest_filter,
\* which re-shades the pixels holding its shapes, and leaves the set empty
ClickPassesAndClears ==
  RenderClicked =>
    /\ last'.mutated = mutated_shapes
    /\ last'.assigned = PixelsHolding(mutated_shapes)
    /\ mutated_shapes' = {}

\* nothing but a Render click takes an id out of the mutated set
OnlyClickClears == ~RenderClicked => mutated_shapes \subseteq mutated_shapes'

\* C29: in the GUI, whatever the sequence of slider edits and Render clicks,
\* the id of every shape edited since the previous Render click is in the
\* mutated set passed to render_forest_filter at the next Render click, and
\* the set is empty right after each click: an edit is re-shaded by the first
\* Render click that follows it and by no later one
C29_MutatedSetBookkeeping ==
  [][SliderMarks /\ ClickPassesAndClears /\ OnlyClickClears]_vars

\* a Render click that followed the edits of two shapes: it was passed both,
\* re-shaded pixels, and left the mutated set empty
C29_Witness ==
  /\ last.op = "render_forest_filter"
  /\ edits = 2
  /\ Cardinality(last.mutated) = 2
  /\ last.assigned # {}
  /\ mutated_shapes = {}

(* ---------------------- reductions only read (C30) --------------------- *)
\* a reduction, full or filtered, changes neither the forest nor a material
ReductionsOnlyRead ==
  last'.op \in {"render_forest", "render_forest_filter"} =>
    /\ forest' = forest
    /\ mats' = mats
    /\ scene' = scene

\* right after render_forest, a second render_forest gives the same buffer
SecondReductionSame == last.op = "render_forest" => FullyReduced = buffer

\* C30: render_forest and render_forest_filter never modify the forest (its
\* trees and id sets) or any material, so any number of reductions leaves the
\* forest unchanged; with no material edit in between, render_forest called
\* twice gives the same buffer as called once
C30_ReductionsFrame == []SecondReductionSame /\ [][ReductionsOnlyRead]_vars

\* a full reduction of a forest whose materials were edited after it was built,
\* giving a buffer that is not all black
C30_Witness ==
  /\ last.op = "render_forest"
  /\ mats # forest_mats
  /\ \E px \in Pixels(buffer) :
       /\ forest.v[px[1]][px[2]].root.tag = "Branch"
       /\ buffer.buf[px[1]][px[2]] # BLACK

====
